---- MODULE Spec2Model ----
(***************************************************************************)
(* The hand-lifecycle engine of the poker advisor (class Bot), its         *)
(* decision query with retries, the Oracle services that parse the         *)
(* pasted response, and the presentation / actuation boundary.             *)
(*                                                                         *)
(* The repository holds two engines:                                       *)
(*   "log"      src/app/bot.ts and src/unnamed/part_002 (lines 70-395):    *)
(*              polls waitForBotTurnOrWinner and pulls the table log;      *)
(*   "snapshot" src/unnamed/part_003: polls getTableState.                 *)
(* Two Oracle services (both named ManualChatGPTService):                  *)
(*   "manual"   src/app/services/ai/manual-chatgpt-service.ts              *)
(*   "legacy"   src/app/services/ai/openai-service.ts                      *)
(* and two Observers that answer waitForBotTurnOrWinner:                   *)
(*   "frame"    src/app/services/puppeteer-service.ts                      *)
(*   "selector" src/unnamed/part_013                                       *)
(* Amounts in big blinds are exact rationals <<numerator, denominator>>.   *)
(*                                                                         *)
(* The specifications:                                                     *)
(*   Spec        the engine, at a table whose log stays empty;             *)
(*   TimeoutSpec computeTimeout and the timeouts of the Observer's waits;  *)
(*   LogSpec     the advisory hand loop of the log engine with the table's *)
(*               log and the cursor that ingests it;                       *)
(*   MapSpec     validateAllMsg over the four identity maps of a batch;    *)
(*   EntrySpec   openGame against each navigateToGame, and the seating;    *)
(*   ActSpec     the Observer's action primitives;                         *)
(*   TalkSpec    the conversation history given to the Oracle;             *)
(*   AggSpec     the Table / Game aggregate of the snapshot engines;       *)
(*   ReadSpec    the same aggregate at a table whose board does not move,  *)
(*               read by either getTableState;                             *)
(*   BrowserSpec init and closeBrowser of the Observers;                   *)
(*   ExecSpec    the playing Bot with performBotAction's prompt and page;  *)
(*   StartSpec   the advisory Bots with the prompt that starts them;       *)
(*   WatchSpec   the snapshot engines with the snapshot each round read;   *)
(*   RetrySpec   query of openai-service.ts, retried on one history;       *)
(*   LedgerSpec  updateHandStats over either database service.             *)
(***************************************************************************)
EXTENDS Integers, Sequences, FiniteSets, TLC

\* ---------------------------------------------------------------- bounds
MaxRetries == 2
MaxHands == 2
MaxSize == 2
MaxChips == 3
MaxBigBlind == 2
MaxPlayers == 6
MaxTurnLength == 30
MaxStreets == 4
MaxDefaultTimeout == 1
MaxLines == 3
MaxIds == 3
MaxJoins == 3
MaxMessages == 6
MaxShown == 1
MaxInputs == 3
MaxCalls == 3

VARIABLES
    engine,         \* which Bot source is running: "log" | "snapshot"
    service,        \* which Oracle service: "manual" | "legacy"
    observer,       \* which Observer answers the polls
    node_env,       \* process.env.NODE_ENV
    manual_mode,    \* Bot.manual_mode
    query_retries,  \* Bot.query_retries
    paused,         \* Bot.paused
    pc,             \* position of run() / advisoryOneHand()
    hand_no,        \* number of table.nextHand() calls so far
    pause_hand,     \* hand_no when the operator last chose pause
    big_blind,      \* game.getBigBlind()
    hero_stack,     \* hero.getStackSize(), in big blinds
    signal,         \* what the table showed at the last poll
    ops,            \* operations done since (and including) the last poll
    last_op,        \* the operation done by the last step
    q_retries,      \* the `retries` argument of the running queryBotAction
    q_calls,        \* Oracle calls made by the current queryBotAction
    q_sleeps,       \* back-off sleeps made by the current queryBotAction
    q_result,       \* "none" | "running" | "returned" | "raised"
    q_text,         \* class of the last Oracle response text
    bot_action,     \* the BotAction the query returned
    shown,          \* what the presentation layer displayed last
    executed,       \* Observer action primitives invoked since the last poll
    hand_begun,     \* a hand has begun at the table since the last nextHand()
    \* -- the Observer's timed waits
    num_players,    \* table.getNumPlayers()
    max_turn_length,\* game.getMaxTurnLength(), in seconds
    num_streets,    \* the num_streets argument of the last computeTimeout
    default_timeout,\* PuppeteerService.default_timeout, in milliseconds
    computed,       \* what the last computeTimeout returned
    wait_timeout,   \* the timeout of the Observer waits of the last poll
    waits,          \* Observer waits made by the last poll
    wait_seen,      \* what the table showed during the last poll's waits
    waited_out,     \* waits of the last poll that ran to their timeout
    \* -- the log cursor
    log_len,        \* lines in the table's log; line i has created_at i
    log_valid,      \* the lines that parse to valid messages
    processed_logs, \* advisoryOneHand's cursor {valid_msgs, last_created, first_fetch}
    logs_queue,     \* table.getLogsQueue(): the messages ingested for this hand
    parses,         \* how many times each line was fetched and parsed
    hand_mark,      \* the watermark the session had reached when the hand began
    mid_pulls,      \* pulls on a hero turn that succeeded in this hand
    end_pulls,      \* the end-of-hand pulls of this hand: the last_created of each
    \* -- the identity maps of a message batch
    id_maps,        \* the ids each of the four maps has a mapping for
    all_valid,      \* what validateAllMsg said of the batch: "none" before any
    dropped,        \* the last step took a mapping out of a complete batch
    \* -- opening the game and taking a seat
    navigator,      \* which navigateToGame answered openGame: "none" before
    nav_ok,         \* whether the navigation reached the game: "none" before
    join_requests,  \* sendEnterTableRequest calls made
    join_code,      \* the code of the last sendEnterTableRequest Response
    entry_code,     \* the code of waitForTableEntry's Response
    \* -- the Observer's action primitives
    primitive,      \* the last call of check / call / fold / betOrRaise
    \* -- the conversation with the Oracle
    hand_history,   \* Bot.hand_history
    messages,       \* the AIMessages the Oracle service has been given so far
    prev_messages,  \* the history argument of the last query
    query_hand,     \* the hand in which the last query was made, -1 before
    \* -- the Table / Game aggregate of the snapshot engines
    updater,        \* whose updateModelsFromState runs: "part_002" | "part_003"
    reader,         \* whose getTableState reads the table: "part_010" | "part_012"
    felt_cards,     \* community cards on the table itself
    felt_hole,      \* the hole cards the hero holds at the table (a deal's id)
    has_hero,       \* table.getHero() is not null
    hero_hand,      \* hero.getHand(): a deal's id, 0 for no cards
    game_pot,       \* game.getPot(), in big blinds
    game_cards,     \* the number of community cards the Game holds
    players,        \* the Table's players: the stack and bet of each
    snap,           \* the snapshot that signalled the hero turn in progress
    prev_cards,     \* game_cards before the last update, -1 if that was the hand's first
    updated,        \* the Game was updated from a snapshot in this hand
    \* -- the browser the Observer drives
    launcher,       \* whose init / closeBrowser runs: "frame" | "part_010" | "part_012"
    ws_endpoint,    \* process.env.BROWSER_WS_ENDPOINT: "" | "other" | "ws"
    browser_url,    \* process.env.BROWSER_URL: "" | "other" | "http"
    origin,         \* how init got this.browser: "none" before init
    browser,        \* "none" | "running" | "detached" (still running) | "closed"
    \* -- the last performBotAction
    confirm,        \* the operator's answer to 'Execute ...?': "none" if not asked
    fold_alert,     \* the alert on the page after fold(): "none" if not looked for
    alert_clicked,  \* cancelUnnecessaryFold clicked the alert's cancel button
    cancel_code,    \* the code of cancelUnnecessaryFold's Response, "none" if not called
    \* -- the start of advisory mode
    prompter,       \* whose run / promptUserConfirmation: "bot.ts" | "part_002" | "part_003"
    ready,          \* the answer to 'Ready to start advisory mode?': "none" before
    \* -- the last round of the snapshot engines' monitoring loop
    watcher,        \* whose advisoryOneHand runs: "part_002" | "part_003"
    seen,           \* what the loop reads in the snapshot it was given
    models_updated, \* the round called updateModelsFromState
    \* -- one input of ManualChatGPTService.query (openai-service.ts), retried
    history,        \* the AIMessage[] the caller holds and passes as prev_messages
    formatted,      \* the messages the last call gave to formatForChatGPT
    input,          \* the number of the last call's input: 0 before any
    attempts,       \* calls made with this input
    last_failed,    \* the last call threw
    \* -- the player statistics and the database behind them
    db,             \* the service behind PlayerService: "part_006" | "part_008"
    stored,         \* the rows the database holds, by the key of each
    tally           \* the updateHandStats calls made: how many, and with which flags

config == <<engine, service, observer, node_env, manual_mode, query_retries>>
game == <<big_blind, hero_stack>>
query == <<q_retries, q_calls, q_sleeps, q_result, q_text, bot_action>>
timing == <<num_players, max_turn_length, num_streets, default_timeout,
            computed, wait_timeout, waits, wait_seen, waited_out>>
cursor == <<log_len, log_valid, processed_logs, logs_queue, parses, hand_mark,
            mid_pulls, end_pulls>>
idmaps == <<id_maps, all_valid, dropped>>
entry == <<navigator, nav_ok, join_requests, join_code, entry_code>>
acting == <<primitive>>
talk == <<hand_history, messages, prev_messages, query_hand>>
aggregate == <<updater, reader, felt_cards, felt_hole, has_hero, hero_hand,
               game_pot, game_cards, players, snap, prev_cards, updated>>
browsing == <<launcher, ws_endpoint, browser_url, origin, browser>>
actuation == <<confirm, fold_alert, alert_clicked, cancel_code>>
starting == <<prompter, ready>>
watching == <<watcher, seen, models_updated>>
retrying == <<history, formatted, input, attempts, last_failed>>
ledger == <<db, stored, tally>>
added == <<idmaps, entry, acting, talk, aggregate, browsing, actuation,
           starting, watching, retrying, ledger>>
sans_idmaps == <<entry, acting, talk, aggregate, browsing, actuation,
                 starting, watching, retrying, ledger>>
sans_entry == <<idmaps, acting, talk, aggregate, browsing, actuation,
                starting, watching, retrying, ledger>>
sans_acting == <<idmaps, entry, talk, aggregate, browsing, actuation,
                 starting, watching, retrying, ledger>>
sans_talk == <<idmaps, entry, acting, aggregate, browsing, actuation,
               starting, watching, retrying, ledger>>
sans_aggregate == <<idmaps, entry, acting, talk, browsing, actuation,
                    starting, watching, retrying, ledger>>
sans_browsing == <<idmaps, entry, acting, talk, aggregate, actuation,
                   starting, watching, retrying, ledger>>
sans_actuation == <<idmaps, entry, acting, talk, aggregate, browsing,
                    starting, watching, retrying, ledger>>
sans_starting == <<idmaps, entry, acting, talk, aggregate, browsing,
                   actuation, watching, retrying, ledger>>
sans_watching == <<idmaps, entry, acting, talk, aggregate, browsing,
                   actuation, starting, retrying, ledger>>
sans_retrying == <<idmaps, entry, acting, talk, aggregate, browsing,
                   actuation, starting, watching, ledger>>
sans_ledger == <<idmaps, entry, acting, talk, aggregate, browsing, actuation,
                 starting, watching, retrying>>
bot == <<config, game, query, paused, pc, hand_no, pause_hand, signal, ops,
         last_op, shown, executed, hand_begun>>
vars == <<engine, service, observer, node_env, manual_mode, query_retries,
          paused, pc, hand_no, pause_hand, big_blind, hero_stack, signal, ops,
          last_op, q_retries, q_calls, q_sleeps, q_result, q_text, bot_action,
          shown, executed, hand_begun, timing, cursor, added>>

\* ------------------------------------------------------ value conversion
RECURSIVE GCD(_, _)
GCD(a, b) == IF b = 0 THEN a ELSE GCD(b, a % b)

\* The rational n/d (d > 0, n >= 0) in lowest terms.
Rat(n, d) == LET g == GCD(n, d) IN IF g = 0 THEN <<0, 1>> ELSE <<n \div g, d \div g>>

convertToBBs(value, bb) == Rat(value[1], value[2] * bb)

convertToValue(bbs, bb) == Rat(bbs[1] * bb, bbs[2])

\* --------------------------------------------------------------- Oracle
ActionKinds == {"check", "call", "bet", "raise", "fold", "all-in"}
Sizes == 0..MaxSize
NoAction == [action_str |-> "none", bet_size_in_BBs |-> 0]
BotActions == [action_str : ActionKinds, bet_size_in_BBs : Sizes]

\* What one Oracle call can meet: the clipboard / prompt transport rejects,
\* or the operator pastes a text: empty, not an action, or an action.
OracleResponses ==
    {[class |-> "throw", action |-> NoAction],
     [class |-> "empty", action |-> NoAction],
     [class |-> "garbage", action |-> NoAction]}
    \cup {[class |-> "action", action |-> a] : a \in BotActions}

\* parseResponse(text): the BotAction of a text that names an action; a text
\* that names none is a parse failure.
parseResponse(resp) ==
    IF resp.class = "action"
    THEN [ok |-> TRUE, bot_action |-> resp.action]
    ELSE [ok |-> FALSE, bot_action |-> NoAction]

\* ManualChatGPTService.query of manual-chatgpt-service.ts: the default action
\* is fold; a parse failure is caught and the default kept.
ManualQuery(resp) ==
    LET default == [action_str |-> "fold", bet_size_in_BBs |-> 0] IN
    IF resp.class = "throw" THEN [ok |-> FALSE, bot_action |-> NoAction]
    ELSE IF resp.class = "empty" THEN [ok |-> TRUE, bot_action |-> default]
    ELSE IF parseResponse(resp).ok
         THEN [ok |-> TRUE, bot_action |-> parseResponse(resp).bot_action]
         ELSE [ok |-> TRUE, bot_action |-> default]

\* ManualChatGPTService.query of openai-service.ts: the default action has an
\* empty kind; a parse failure propagates.
LegacyQuery(resp) ==
    LET default == [action_str |-> "", bet_size_in_BBs |-> 0] IN
    IF resp.class = "throw" THEN [ok |-> FALSE, bot_action |-> NoAction]
    ELSE IF resp.class = "empty" THEN [ok |-> TRUE, bot_action |-> default]
    ELSE parseResponse(resp)

\* ai_service.getAction(query): the bot_action of the service's query.
getAction(resp) == IF service = "manual" THEN ManualQuery(resp) ELSE LegacyQuery(resp)

NothingShown == [type |-> "none", action |-> "", size |-> <<>>, available |-> {}]

\* -------------------------------------------------------------- Init
\* The Bot after its constructor.
BotInit ==
    /\ engine \in {"log", "snapshot"}
    /\ service \in {"manual", "legacy"}
    /\ observer \in (IF engine = "log" THEN {"frame", "selector"} ELSE {"state"})
    /\ manual_mode \in BOOLEAN
    /\ node_env \in (IF engine = "log" /\ ~manual_mode
                     THEN {"development", "production"} ELSE {"production"})
    /\ query_retries \in -1..MaxRetries
    /\ paused = FALSE
    /\ pc = "open"
    /\ hand_no = 0
    /\ pause_hand = 0
    /\ big_blind = 2
    /\ hero_stack = <<0, 1>>
    /\ signal = "none"
    /\ ops = {}
    /\ last_op = "constructor"
    /\ q_retries = 0
    /\ q_calls = 0
    /\ q_sleeps = 0
    /\ q_result = "none"
    /\ q_text = "none"
    /\ bot_action = NoAction
    /\ shown = NothingShown
    /\ executed = <<>>
    /\ hand_begun = TRUE

\* Bot.first_created: "" from the constructor, the watermark before any line.
first_created == 0

\* An Observer that has made no timed wait.
NoWait ==
    /\ num_streets = 0
    /\ computed = 0
    /\ wait_timeout = 0
    /\ waits = 0
    /\ wait_seen = "none"
    /\ waited_out = 0

\* A table whose log is empty and a cursor that has ingested nothing.
NoLog ==
    /\ log_len = 0
    /\ log_valid = {}
    /\ processed_logs = [valid_msgs |-> {}, last_created |-> first_created,
                         first_fetch |-> TRUE]
    /\ logs_queue = <<>>
    /\ parses = <<>>
    /\ hand_mark = first_created
    /\ mid_pulls = 0
    /\ end_pulls = <<>>

\* No message batch has been looked at.
MapNames == {"seat_to_id", "id_to_name", "id_to_initial_stack", "id_to_seat"}

NoMaps ==
    /\ id_maps = [m \in MapNames |-> {}]
    /\ all_valid = "none"
    /\ dropped = FALSE

\* The state of everything outside the engine, its waits and its log.
\* openGame and enterTableInProgress have not run.
NoEntry ==
    /\ navigator = "none"
    /\ nav_ok = "none"
    /\ join_requests = 0
    /\ join_code = "none"
    /\ entry_code = "none"

\* No action primitive has been called.
NoPrimitive ==
    primitive = [name |-> "none", amount |-> 0, label |-> "", done |-> 0,
                 rejected |-> FALSE, threw |-> FALSE, code |-> "none",
                 typed |-> 0]

\* The Oracle has not been asked anything.
NoTalk ==
    /\ hand_history = <<>>
    /\ messages = <<>>
    /\ prev_messages = <<>>
    /\ query_hand = -1

\* new Table(); new Game(game_id, table, 2, 1, 'NLH', 30): no players, no
\* hero, no cards, an empty pot; nothing has been read from the table.
NewAggregate ==
    /\ felt_cards = 0
    /\ felt_hole = 1
    /\ has_hero = FALSE
    /\ hero_hand = 0
    /\ game_pot = <<0, 1>>
    /\ game_cards = 0
    /\ players = <<>>
    /\ snap = [pot |-> 0, hole |-> 0, stack |-> 0]
    /\ prev_cards = -1
    /\ updated = FALSE

NoAggregate ==
    /\ updater = "part_003"
    /\ reader = "part_012"
    /\ NewAggregate

\* The Observer has not been initialised: no browser.
NoBrowser ==
    /\ launcher = "frame"
    /\ ws_endpoint = ""
    /\ browser_url = ""
    /\ origin = "none"
    /\ browser = "none"

\* performBotAction has not run.
NoActuation ==
    /\ confirm = "none"
    /\ fold_alert = "none"
    /\ alert_clicked = FALSE
    /\ cancel_code = "none"

\* The operator has not been asked whether to start.
NoStart ==
    /\ prompter = "bot.ts"
    /\ ready = "none"

\* The monitoring loop has not been given a snapshot.
NothingSeen == [isNull |-> TRUE, self |-> FALSE, selfTurn |-> FALSE,
                otherTurn |-> FALSE, active |-> 0, cards |-> 0]

NoWatch ==
    /\ watcher = "part_003"
    /\ seen = NothingSeen
    /\ models_updated = FALSE

\* query has not been called.
NoRetry ==
    /\ history = <<>>
    /\ formatted = <<>>
    /\ input = 0
    /\ attempts = 0
    /\ last_failed = FALSE

\* The values of a query's parameters: the player's name, or a number. A row
\* is stored under its first parameter.
PlayerName == <<"name", 0>>
Number(n) == <<"number", n>>
NumberOf(value) == value[2]
NoRow == [name |-> PlayerName, total_hands |-> Number(0), walks |-> Number(0),
          vpip_hands |-> Number(0), pfr_hands |-> Number(0)]

\* An empty database and no call made.
NoLedger ==
    /\ db = "part_006"
    /\ stored = <<>>
    /\ tally = [total_hands |-> 0, walks |-> 0, vpip_hands |-> 0,
                pfr_hands |-> 0]

NoAdded ==
    /\ NoMaps
    /\ NoEntry
    /\ NoPrimitive
    /\ NoTalk
    /\ NoAggregate
    /\ NoBrowser
    /\ NoActuation
    /\ NoStart
    /\ NoWatch
    /\ NoRetry
    /\ NoLedger

Init ==
    /\ BotInit
    /\ num_players = 2
    /\ max_turn_length = 1
    /\ default_timeout = 0
    /\ NoWait
    /\ NoLog
    /\ NoAdded

\* One advisory Bot of the log engine at a quiet table: the fixed surroundings
\* of the specifications that look at one component.
Frozen ==
    /\ BotInit
    /\ engine = "log" /\ service = "manual" /\ observer = "selector"
    /\ manual_mode /\ query_retries = 0
    /\ num_players = 2
    /\ max_turn_length = 1
    /\ default_timeout = 0
    /\ NoWait
    /\ NoLog

\* Every step records the operation it did.
Did(op) == /\ last_op' = op
           /\ ops' = ops \cup {op}

\* ------------------------------------------------------------- run()
OpenGame ==
    /\ pc = "open"
    /\ \E navigated \in BOOLEAN :
         pc' = IF navigated THEN "confirm" ELSE "crashed"
    /\ Did("openGame")
    /\ UNCHANGED <<timing, cursor, hand_begun, added, config, game, query, paused, hand_no, pause_hand, signal,
                   shown, executed>>

\* The hand loop run() enters, and where each loop goes after a stage of a
\* hero turn.
\* (a loop that shows a failed query's result as advice)
advisoryOneHandNextUncaught(stage) ==
    CASE stage = "returned" -> "display"
      [] stage = "raised" -> "display"
      [] stage = "displayed" -> "wait_user"
      [] stage = "fellback" -> "wait_user"

advisoryOneHandNext(stage) ==
    CASE stage = "returned" -> "display"
      [] stage = "raised" -> "fallback"
      [] stage = "displayed" -> "wait_user"
      [] stage = "fellback" -> "wait_user"

playOneHandNext(stage) ==
    CASE stage = "returned" -> "perform"
      [] stage = "raised" -> "fallback"
      [] stage = "performed" -> "monitor"
      [] stage = "fellback" -> "monitor"

HandLoopNext(stage) ==
    IF manual_mode THEN advisoryOneHandNext(stage) ELSE playOneHandNext(stage)

PromptUserConfirmation ==
    /\ pc = "confirm"
    /\ pc' = IF engine = "log" THEN "enter" ELSE "top"
    /\ IF manual_mode
       THEN \E confirmed \in BOOLEAN : Did("promptUserConfirmation")
       ELSE UNCHANGED <<last_op, ops>>
    /\ UNCHANGED <<timing, cursor, hand_begun, added, config, game, query, paused, hand_no, pause_hand, signal,
                   shown, executed>>

EnterTableInProgress ==
    /\ pc = "enter"
    /\ \E outcome \in {"observe", "success", "error"} :
         pc' = IF outcome = "error" THEN "enter" ELSE "top"
    /\ Did("enterTableInProgress")
    /\ UNCHANGED <<timing, cursor, hand_begun, added, config, game, query, paused, hand_no, pause_hand, signal,
                   shown, executed>>

\* (a loop that starts monitoring without waiting for the next hand)
RunLoopWithoutWait ==
    /\ pc = "top"
    /\ pc' = IF paused THEN "pause"
             ELSE IF engine = "log" \/ manual_mode THEN "monitor"
             ELSE "finished"
    /\ UNCHANGED <<timing, cursor, hand_begun, added, config, game, query, paused,
                   hand_no, pause_hand, signal, ops, last_op, shown, executed>>

RunLoop ==
    /\ pc = "top"
    /\ pc' = IF paused THEN "pause"
             ELSE IF engine = "log" THEN "next_hand"
             ELSE IF manual_mode THEN "monitor"
             ELSE "finished"
    /\ UNCHANGED <<timing, cursor, hand_begun, added, config, game, query, paused, hand_no, pause_hand, signal,
                   ops, last_op, shown, executed>>

HandlePauseMode ==
    /\ pc = "pause"
    /\ \E action \in {"resume", "quit"} :
         /\ paused' = IF action = "resume" THEN FALSE ELSE paused
         /\ pc' = IF action = "resume" THEN "top" ELSE "exited"
    /\ Did("handlePauseMode")
    /\ UNCHANGED <<timing, cursor, hand_begun, added, config, game, query, hand_no, pause_hand, signal, shown,
                   executed>>

\* waitForNextHand(): returns once the Observer has reported a new hand.
WaitForNextHand ==
    /\ pc = "next_hand"
    /\ engine = "log"
    /\ hand_begun' = TRUE
    /\ pc' = "game_info"
    /\ Did("waitForNextHand")
    /\ UNCHANGED <<timing, cursor, added, config, game, query, paused, hand_no,
                   pause_hand, signal, shown, executed>>

\* updateNumPlayers(); updateGameInfo(); table.setPlayersInPot(...)
UpdateGameInfo ==
    /\ pc = "game_info"
    /\ big_blind' \in 1..MaxBigBlind
    /\ pc' = "monitor"
    /\ Did("updateGameInfo")
    /\ UNCHANGED <<timing, cursor, hand_begun, added, config, hero_stack, query,
                   paused, hand_no, pause_hand, signal, shown, executed>>

\* ------------------------------------------------- the Observer's polls
\* waitForBotTurnOrWinner's Response for what the table shows.
FrameResponse(table) ==
    CASE table = "hero" -> [code |-> "success", data |-> "action"]
      [] table = "winner" -> [code |-> "success", data |-> "table-player winner"]
      [] OTHER -> [code |-> "error", data |-> ""]

SelectorResponse(table) ==
    CASE table = "hero" -> [code |-> "success", data |-> "action-signal"]
      [] table = "winner" -> [code |-> "success", data |-> "table-player winner"]
      [] OTHER -> [code |-> "error", data |-> ""]

waitForBotTurnOrWinner(table) ==
    IF observer = "frame" THEN FrameResponse(table) ELSE SelectorResponse(table)

\* String.prototype.includes on the texts the Observers return.
Includes(data, needle) ==
    CASE data = "action-signal" -> needle \in {"action-signal", "action", "signal"}
      [] data = "action" -> needle \in {"action"}
      [] data = "table-player winner" -> needle \in {"table-player", "winner"}
      [] OTHER -> FALSE

\* A poll starts a new cycle: what the last one displayed and executed is
\* behind.
CycleStart(op, table) ==
    /\ signal' = table
    /\ ops' = {op}
    /\ last_op' = op
    /\ shown' = NothingShown
    /\ executed' = <<>>

NoQuery ==
    /\ q_retries' = 0
    /\ q_calls' = 0
    /\ q_sleeps' = 0
    /\ q_result' = "none"
    /\ q_text' = "none"
    /\ bot_action' = NoAction

\* Where advisoryOneHand (bot.ts) goes on a Response.
AfterPoll(res) ==
    IF res.code = "success"
    THEN IF Includes(res.data, "action-signal") THEN "pull"
         ELSE IF Includes(res.data, "winner") THEN "hand_end"
         ELSE "monitor"
    ELSE "monitor"

MonitorLog ==
    /\ pc = "monitor"
    /\ engine = "log"
    /\ \E table \in {"hero", "winner", "quiet"} :
         /\ pc' = AfterPoll(waitForBotTurnOrWinner(table))
         /\ CycleStart("waitForBotTurnOrWinner", table)
    /\ NoQuery
    /\ UNCHANGED <<timing, cursor, hand_begun, added, config, game, paused, hand_no, pause_hand>>

PullLogs ==
    /\ pc = "pull"
    /\ \E pulled \in BOOLEAN :
         pc' = IF pulled THEN "update" ELSE "monitor"
    /\ Did("pullAndProcessLogs")
    /\ UNCHANGED <<timing, cursor, hand_begun, added, config, game, query, paused, hand_no, pause_hand, signal,
                   shown, executed>>

\* The query starts with the configured retry budget.
StartQuery ==
    /\ q_retries' = query_retries
    /\ q_calls' = 0
    /\ q_sleeps' = 0
    /\ q_result' = "running"
    /\ q_text' = "none"
    /\ bot_action' = NoAction

UpdateFromTable ==
    /\ pc = "update"
    /\ \E stack_size \in 1..MaxChips :
         hero_stack' = convertToBBs(<<stack_size, 1>>, big_blind)
    /\ StartQuery
    /\ pc' = "query"
    /\ Did("updateFromTable")
    /\ UNCHANGED <<timing, cursor, hand_begun, added, config, big_blind, paused, hand_no, pause_hand, signal,
                   shown, executed>>

\* getTableState's snapshots: is the hero on the table, is it the hero's or
\* another player's turn, how many players have not folded, how many
\* community cards are out, the hero's stack.
Snapshots ==
    {s \in [isNull : BOOLEAN, self : BOOLEAN, selfTurn : BOOLEAN, otherTurn : BOOLEAN,
            active : 0..2, cards : {0, 3, 4, 5}, stack : 0..MaxChips] :
        /\ (s.selfTurn => s.self /\ ~s.otherTurn /\ s.stack >= 1 /\ s.active >= 1)
        /\ (s.isNull => ~s.self /\ ~s.otherTurn /\ s.active = 0 /\ s.cards = 0
                        /\ s.stack = 0)
        /\ (~s.self => s.stack = 0)}

\* (a hand that counts as over as soon as five community cards are out)
isHandOverAtShowdown(gameState) ==
    \/ gameState.active <= 1
    \/ gameState.cards = 5

isHandOver(gameState) ==
    \/ gameState.active <= 1
    \/ gameState.cards = 5 /\ ~(gameState.selfTurn \/ gameState.otherTurn)

updateModelsFromState(gameState) ==
    /\ big_blind' = 2
    /\ hero_stack' = IF gameState.self
                     THEN convertToBBs(<<gameState.stack, 1>>, 2)
                     ELSE hero_stack

SnapshotSignal(gameState) ==
    IF gameState.isNull THEN "quiet"
    ELSE IF gameState.self /\ gameState.selfTurn THEN "hero"
    ELSE IF isHandOver(gameState) THEN "winner"
    ELSE "quiet"

\* A snapshot of a hand that is being played.
HandRunning(gameState) == ~gameState.isNull /\ ~isHandOver(gameState)

\* One round of advisoryOneHand (part_003) on the snapshot getTableState
\* returned.
OnSnapshot(gameState) ==
    /\ hand_begun' \in (IF hand_begun \/ HandRunning(gameState)
                        THEN {TRUE} ELSE BOOLEAN)
    /\ CycleStart("getTableState", SnapshotSignal(gameState))
    /\ IF gameState.isNull
       THEN /\ pc' = "monitor"
            /\ NoQuery
            /\ UNCHANGED game
       ELSE IF gameState.self /\ gameState.selfTurn
       THEN /\ updateModelsFromState(gameState)
            /\ StartQuery
            /\ pc' = "query"
       ELSE IF isHandOver(gameState)
       THEN /\ updateModelsFromState(gameState)
            /\ NoQuery
            /\ pc' = "reset"
       ELSE /\ pc' = "monitor"
            /\ NoQuery
            /\ UNCHANGED game

MonitorSnapshot ==
    /\ pc = "monitor"
    /\ engine = "snapshot"
    /\ \E gameState \in Snapshots : OnSnapshot(gameState)
    /\ UNCHANGED <<timing, cursor, added, config, paused, hand_no, pause_hand>>

\* ------------------------------------------------------ queryBotAction
\* Bot.queryBotAction as src/unnamed/part_003 has it (bot.ts elides its body):
\* one Oracle call; on failure, while retries > 0, a sleep and a recursive call
\* with retries - 1; otherwise the failure is rethrown.
\* (a retry budget that also retries at 0)
ShouldRetryInclusive(retries) == retries >= 0

ShouldRetry(retries) == retries > 0

\* (a recursion that passes the budget on unchanged)
NextRetriesKept(retries) == retries

NextRetries(retries) == retries - 1

QueryCall ==
    /\ pc = "query"
    /\ \E resp \in OracleResponses :
         LET res == getAction(resp) IN
         /\ q_calls' = q_calls + 1
         /\ q_text' = resp.class
         /\ IF res.ok
            THEN /\ bot_action' = res.bot_action
                 /\ q_result' = "returned"
                 /\ pc' = HandLoopNext("returned")
            ELSE IF ShouldRetry(q_retries)
            THEN /\ pc' = "query_sleep"
                 /\ UNCHANGED <<bot_action, q_result>>
            ELSE /\ q_result' = "raised"
                 /\ pc' = HandLoopNext("raised")
                 /\ UNCHANGED bot_action
    /\ Did("getAction")
    /\ UNCHANGED <<timing, cursor, hand_begun, added, config, game, q_retries, q_sleeps, paused, hand_no,
                   pause_hand, signal, shown, executed>>

\* (a back-off that sleeps twice before a re-attempt)
QuerySleepTwice ==
    /\ pc = "query_sleep"
    /\ q_sleeps' = q_sleeps + 2
    /\ q_retries' = NextRetries(q_retries)
    /\ pc' = "query"
    /\ Did("sleep")
    /\ UNCHANGED <<timing, cursor, hand_begun, added, config, game, q_calls, q_result, q_text, bot_action, paused,
                   hand_no, pause_hand, signal, shown, executed>>

QuerySleep ==
    /\ pc = "query_sleep"
    /\ q_sleeps' = q_sleeps + 1
    /\ q_retries' = NextRetries(q_retries)
    /\ pc' = "query"
    /\ Did("sleep")
    /\ UNCHANGED <<timing, cursor, hand_begun, added, config, game, q_calls, q_result, q_text, bot_action, paused,
                   hand_no, pause_hand, signal, shown, executed>>

\* --------------------------------------------------------- presentation
\* displayAdvice of the log engine: the action, and its size when > 0.
LogDisplayAdvice(a) ==
    [type |-> "advice", action |-> a.action_str,
     size |-> IF a.bet_size_in_BBs > 0 THEN <<Rat(a.bet_size_in_BBs, 1)>> ELSE <<>>,
     available |-> {}]

\* displayAdvice of the snapshot engine: the action, and the amount of a bet
\* or a raise.
SnapshotDisplayAdvice(a) ==
    [type |-> "advice", action |-> a.action_str,
     size |-> IF a.action_str \in {"bet", "raise"}
              THEN <<Rat(a.bet_size_in_BBs, 1)>> ELSE <<>>,
     available |-> {}]

displayAdvice(a) ==
    IF engine = "log" THEN LogDisplayAdvice(a) ELSE SnapshotDisplayAdvice(a)

\* (an advisory step that also clicks the advised action)
DisplayAdviceExecuting ==
    /\ pc = "display"
    /\ shown' = displayAdvice(bot_action)
    /\ executed' = << <<bot_action.action_str>> >>
    /\ pc' = HandLoopNext("displayed")
    /\ Did("displayAdvice")
    /\ UNCHANGED <<timing, cursor, hand_begun, added, config, game, query, paused, hand_no, pause_hand, signal>>

DisplayAdvice ==
    /\ pc = "display"
    /\ shown' = displayAdvice(bot_action)
    /\ pc' = HandLoopNext("displayed")
    /\ last_op' = "displayAdvice"
    /\ ops' = ops \cup {"displayAdvice"}
                \cup (IF engine = "log" THEN {"resetPlayerActions"} ELSE {})
    /\ UNCHANGED <<timing, cursor, hand_begun, added, config, game, query, paused, hand_no, pause_hand, signal,
                   executed>>

\* displayFallbackAdvice: "Check if possible, otherwise fold", with the
\* actions getValidActions found available (log engine).
displayFallbackAdvice(validActions) ==
    [type |-> "fallback", action |-> "check, otherwise fold", size |-> <<>>,
     available |-> validActions]

DisplayFallbackAdvice ==
    /\ pc = "fallback"
    /\ \E validActions \in SUBSET {"check", "call", "bet/raise", "fold"} :
         /\ engine = "snapshot" => validActions = {}
         /\ shown' = displayFallbackAdvice(validActions)
    /\ pc' = HandLoopNext("fellback")
    /\ Did("displayFallbackAdvice")
    /\ UNCHANGED <<timing, cursor, hand_begun, added, config, game, query, paused, hand_no, pause_hand, signal,
                   executed>>

WaitForUserExecution ==
    /\ pc = "wait_user"
    /\ \E action \in (IF engine = "log"
                      THEN {"executed", "different", "pause", "skip"}
                      ELSE {"acted", "pause"}) :
         /\ paused' = IF action = "pause" THEN TRUE ELSE paused
         /\ pause_hand' = IF action = "pause" THEN hand_no ELSE pause_hand
    /\ pc' = "monitor"
    /\ Did("waitForUserExecution")
    /\ UNCHANGED <<timing, cursor, hand_begun, added, config, game, query, hand_no, signal, shown, executed>>

\* ------------------------------------------------------------ actuation
\* (a performBotAction that does not wait for the operator's confirmation)
PrimitivesUnconfirmed(a, confirmed, cancelled) ==
    IF manual_mode THEN <<>>
    ELSE LET bet_size == convertToValue(<<a.bet_size_in_BBs, 1>>, big_blind) IN
         CASE a.action_str \in {"bet", "raise"} -> << <<"betOrRaise", bet_size>> >>
           [] a.action_str = "all-in" ->
                << <<"betOrRaise", convertToValue(hero_stack, big_blind)>> >>
           [] a.action_str = "call" -> << <<"call">> >>
           [] a.action_str = "check" -> << <<"check">> >>
           [] a.action_str = "fold" ->
                IF cancelled THEN << <<"fold">>, <<"check">> >> ELSE << <<"fold">> >>
           [] OTHER -> <<>>

\* The Observer primitives performBotAction invokes for an action.
Primitives(a, confirmed, cancelled) ==
    IF manual_mode THEN <<>>
    ELSE IF node_env # "development" /\ ~confirmed THEN <<>>
    ELSE LET bet_size == convertToValue(<<a.bet_size_in_BBs, 1>>, big_blind) IN
         CASE a.action_str \in {"bet", "raise"} -> << <<"betOrRaise", bet_size>> >>
           [] a.action_str = "all-in" ->
                << <<"betOrRaise", convertToValue(hero_stack, big_blind)>> >>
           [] a.action_str = "call" -> << <<"call">> >>
           [] a.action_str = "check" -> << <<"check">> >>
           [] a.action_str = "fold" ->
                IF cancelled THEN << <<"fold">>, <<"check">> >> ELSE << <<"fold">> >>
           [] OTHER -> <<>>

PerformBotAction ==
    /\ pc = "perform"
    /\ \E confirmed \in BOOLEAN, cancelled \in BOOLEAN :
         executed' = Primitives(bot_action, confirmed, cancelled)
    /\ pc' = HandLoopNext("performed")
    /\ Did("performBotAction")
    /\ UNCHANGED <<timing, cursor, hand_begun, added, config, game, query, paused, hand_no, pause_hand, signal,
                   shown>>

\* ---------------------------------------------------------- end of hand
EndOfHand ==
    /\ pc = "hand_end"
    /\ \E pulled \in BOOLEAN : TRUE
    /\ pc' = "reset"
    /\ Did("endOfHand")
    /\ UNCHANGED <<timing, cursor, hand_begun, added, config, game, query, paused, hand_no, pause_hand, signal,
                   shown, executed>>

\* hand_history = []; table.nextHand()
ResetHand ==
    /\ pc = "reset"
    /\ hand_no < MaxHands
    /\ hand_no' = hand_no + 1
    /\ hand_begun' = FALSE
    /\ pc' = "top"
    /\ Did("nextHand")
    /\ UNCHANGED <<timing, cursor, added, config, game, query, paused, pause_hand,
                   signal, shown, executed>>

Next ==
    \/ OpenGame
    \/ PromptUserConfirmation
    \/ EnterTableInProgress
    \/ RunLoop
    \/ HandlePauseMode
    \/ WaitForNextHand
    \/ UpdateGameInfo
    \/ MonitorLog
    \/ PullLogs
    \/ UpdateFromTable
    \/ MonitorSnapshot
    \/ QueryCall
    \/ QuerySleep
    \/ DisplayAdvice
    \/ DisplayFallbackAdvice
    \/ WaitForUserExecution
    \/ PerformBotAction
    \/ EndOfHand
    \/ ResetHand

\* ------------------------------------------------ the Observer's deadlines
\* The num_streets both Observers pass to computeTimeout.
NumStreets == 4

\* (a timeout that counts the hero among the players to wait for)
computeTimeoutAllPlayers(n, turn, streets) == 1000 * n * turn * streets

\* computeTimeout(num_players, max_turn_length, num_streets), in milliseconds.
computeTimeout(n, turn, streets) == 1000 * (n - 1) * turn * streets

\* (a wait that uses the hand timeout as it is)
timeoutWithoutSlack(n, turn) == computeTimeout(n, turn, NumStreets)

\* The timeout waitForBotTurnOrWinner gives each of its waits.
timeout(n, turn) == computeTimeout(n, turn, NumStreets) * 5 + default_timeout

\* An Observer of a table with some players, a turn length and a default
\* timeout, driven by a Bot of the log engine.
TimeoutInit ==
    /\ BotInit
    /\ engine = "log" /\ service = "manual" /\ manual_mode /\ query_retries = 0
    /\ num_players \in 0..MaxPlayers
    /\ max_turn_length \in 0..MaxTurnLength
    /\ default_timeout \in 0..MaxDefaultTimeout
    /\ NoWait
    /\ NoLog
    /\ NoAdded

\* A call of computeTimeout for some number of streets.
ComputeTimeout ==
    /\ \E streets \in 1..MaxStreets :
         /\ num_streets' = streets
         /\ computed' = computeTimeout(num_players, max_turn_length, streets)
    /\ UNCHANGED <<num_players, max_turn_length, default_timeout, wait_timeout,
                   waits, wait_seen, waited_out, cursor, hand_begun, added, config, game, query, paused, pc,
                   hand_no, pause_hand, signal, ops, last_op, shown, executed>>

\* The waits of one waitForBotTurnOrWinner that end by their timeout. The
\* frame Observer waits for an action control first and only then for a
\* winner: a winner on the table is seen after the first wait has timed out.
FrameTimedOut(table) ==
    CASE table = "hero" -> 0
      [] table = "winner" -> 1
      [] OTHER -> 2

\* The selector Observer waits for either element in one waitForSelector.
SelectorTimedOut(table) == IF table \in {"hero", "winner"} THEN 0 ELSE 1

timedOutWaits(table) ==
    IF observer = "frame" THEN FrameTimedOut(table) ELSE SelectorTimedOut(table)

\* waitForBotTurnOrWinner(num_players, max_turn_length): the selector Observer
\* makes one wait; the frame Observer waits for an action control and, when
\* that wait times out, for a winner, each wait with the same timeout.
TimedWait ==
    /\ \E table \in {"hero", "winner", "quiet"} :
         /\ waits' = IF observer = "frame" /\ table # "hero" THEN 2 ELSE 1
         /\ wait_seen' = table
         /\ waited_out' = timedOutWaits(table)
    /\ num_streets' = NumStreets
    /\ computed' = computeTimeout(num_players, max_turn_length, NumStreets)
    /\ wait_timeout' = timeout(num_players, max_turn_length)
    /\ UNCHANGED <<num_players, max_turn_length, default_timeout, cursor,
                   hand_begun, added, config, game, query, paused, pc, hand_no,
                   pause_hand, signal, ops, last_op, shown, executed>>

TimeoutNext ==
    \/ ComputeTimeout
    \/ TimedWait

\* ----------------------------------------------------------- the log cursor
\* The lines a fetch returns: those created after last_created, or all of
\* them on a first fetch.
Fetched(len, last_created, first_fetch) ==
    IF first_fetch THEN 1..len ELSE (last_created + 1)..len

\* pullAndProcessLogs(last_created, first_fetch) on a log of len lines: the
\* valid messages among the fetched lines, the watermark moved to the newest
\* line (parsed or not), and no first fetch any more.
pullAndProcessLogs(len, valid, last_created, first_fetch) ==
    LET new == Fetched(len, last_created, first_fetch) IN
    [valid_msgs |-> new \cap valid,
     last_created |-> IF new = {} THEN last_created ELSE len,
     first_fetch |-> FALSE]

\* The lines of a set, oldest first.
RECURSIVE InOrder(_)
InOrder(S) ==
    IF S = {} THEN <<>>
    ELSE LET m == CHOOSE x \in S : \A y \in S : x <= y
         IN <<m>> \o InOrder(S \ {m})

\* What a successful pull leaves: the cursor the caller assigns, the valid
\* messages in the table's queue, each fetched line parsed once more.
Ingest(last_created, first_fetch) ==
    LET res == pullAndProcessLogs(log_len, log_valid, last_created, first_fetch)
        new == Fetched(log_len, last_created, first_fetch)
    IN /\ processed_logs' = res
       /\ logs_queue' = logs_queue \o InOrder(res.valid_msgs)
       /\ parses' = [i \in 1..log_len |->
                        IF i \in new THEN parses[i] + 1 ELSE parses[i]]

\* A Bot of the log engine in advisory mode, at a table whose log is empty.
LogInit ==
    /\ BotInit
    /\ engine = "log" /\ service = "manual"
    /\ manual_mode /\ query_retries = 0
    /\ num_players = 2
    /\ max_turn_length = 1
    /\ default_timeout = 0
    /\ NoWait
    /\ NoLog
    /\ NoAdded

\* The table writes a line to its log; the line parses to a valid message
\* or does not.
WriteLog ==
    /\ log_len < MaxLines
    /\ log_len' = log_len + 1
    /\ \E parsed \in BOOLEAN :
         log_valid' = IF parsed THEN log_valid \cup {log_len + 1} ELSE log_valid
    /\ parses' = Append(parses, 0)
    /\ UNCHANGED <<processed_logs, logs_queue, hand_mark, mid_pulls, end_pulls,
                   timing, hand_begun, added, config, game, query, paused, pc, hand_no,
                   pause_hand, signal, ops, last_op, shown, executed>>

\* run() from the capture of the game info to the first statement of
\* advisoryOneHand, at a table whose blinds stay as they are: a cursor at
\* first_created that has fetched nothing.
EnterAdvisoryHand ==
    /\ pc = "game_info"
    /\ processed_logs' = [valid_msgs |-> {}, last_created |-> first_created,
                          first_fetch |-> TRUE]
    /\ hand_mark' = processed_logs.last_created
    /\ mid_pulls' = 0
    /\ end_pulls' = <<>>
    /\ pc' = "monitor"
    /\ Did("updateGameInfo")
    /\ UNCHANGED <<log_len, log_valid, logs_queue, parses, timing, hand_begun,
                   added, config, game, query, paused, hand_no, pause_hand, signal,
                   shown, executed>>

\* (a pull whose failure leaves the cursor of a first fetch)
PullLogsOnTurnForgetting ==
    /\ pc = "pull"
    /\ \E pulled \in BOOLEAN :
         IF pulled
         THEN /\ Ingest(processed_logs.last_created, processed_logs.first_fetch)
              /\ mid_pulls' = IF mid_pulls < 2 THEN mid_pulls + 1 ELSE mid_pulls
              /\ pc' = "update"
         ELSE /\ processed_logs' = [valid_msgs |-> {}, last_created |-> first_created,
                                    first_fetch |-> TRUE]
              /\ pc' = "monitor"
              /\ UNCHANGED <<logs_queue, parses, mid_pulls>>
    /\ Did("pullAndProcessLogs")
    /\ UNCHANGED <<log_len, log_valid, hand_mark, end_pulls, timing, hand_begun,
                   added, config, game, query, paused, hand_no, pause_hand, signal,
                   shown, executed>>

\* (a pull whose failure still moves the watermark to the newest line)
PullLogsOnTurnSkipping ==
    /\ pc = "pull"
    /\ \E pulled \in BOOLEAN :
         IF pulled
         THEN /\ Ingest(processed_logs.last_created, processed_logs.first_fetch)
              /\ mid_pulls' = IF mid_pulls < 2 THEN mid_pulls + 1 ELSE mid_pulls
              /\ pc' = "update"
         ELSE /\ processed_logs' = [processed_logs EXCEPT !.last_created = log_len,
                                                          !.first_fetch = FALSE]
              /\ pc' = "monitor"
              /\ UNCHANGED <<logs_queue, parses, mid_pulls>>
    /\ Did("pullAndProcessLogs")
    /\ UNCHANGED <<log_len, log_valid, hand_mark, end_pulls, timing, hand_begun,
                   added, config, game, query, paused, hand_no, pause_hand, signal,
                   shown, executed>>

\* The pull on a hero turn: the cursor is passed and replaced by the result;
\* a failed pull is caught and the loop continues with the cursor it had.
PullLogsOnTurn ==
    /\ pc = "pull"
    /\ \E pulled \in BOOLEAN :
         IF pulled
         THEN /\ Ingest(processed_logs.last_created, processed_logs.first_fetch)
              /\ mid_pulls' = IF mid_pulls < 2 THEN mid_pulls + 1 ELSE mid_pulls
              /\ pc' = "update"
         ELSE /\ pc' = "monitor"
              /\ UNCHANGED <<processed_logs, logs_queue, parses, mid_pulls>>
    /\ Did("pullAndProcessLogs")
    /\ UNCHANGED <<log_len, log_valid, hand_mark, end_pulls, timing, hand_begun,
                   added, config, game, query, paused, hand_no, pause_hand, signal,
                   shown, executed>>

\* The hero's turn after a successful pull, as the cursor sees it: the table
\* is updated, the Oracle queried, the advice shown and the operator asked;
\* none of it reads or writes the cursor.
AdviseOnTurn ==
    /\ pc = "update"
    /\ pc' = "monitor"
    /\ last_op' = "waitForUserExecution"
    /\ ops' = ops \cup {"updateFromTable", "getAction", "waitForUserExecution"}
    /\ UNCHANGED <<cursor, timing, hand_begun, added, config, game, query, paused,
                   hand_no, pause_hand, signal, shown, executed>>

\* The end of advisoryOneHand: one pull from first_created with the cursor's
\* first_fetch; a failure is caught.
PullLogsAfterHand ==
    /\ pc = "hand_end"
    /\ \E pulled \in BOOLEAN :
         IF pulled
         THEN Ingest(first_created, processed_logs.first_fetch)
         ELSE UNCHANGED <<processed_logs, logs_queue, parses>>
    /\ end_pulls' = Append(end_pulls, first_created)
    /\ pc' = "reset"
    /\ Did("endOfHand")
    /\ UNCHANGED <<log_len, log_valid, hand_mark, mid_pulls, timing, hand_begun,
                   added, config, game, query, paused, hand_no, pause_hand, signal,
                   shown, executed>>

\* hand_history = []; table.nextHand(): the table's queue is emptied.
NextHand ==
    /\ pc = "reset"
    /\ hand_no < MaxHands
    /\ hand_no' = hand_no + 1
    /\ hand_begun' = FALSE
    /\ logs_queue' = <<>>
    /\ pc' = "top"
    /\ Did("nextHand")
    /\ UNCHANGED <<log_len, log_valid, processed_logs, parses, hand_mark,
                   mid_pulls, end_pulls, timing, added, config, game, query, paused,
                   pause_hand, signal, shown, executed>>

LogNext ==
    \/ OpenGame
    \/ PromptUserConfirmation
    \/ EnterTableInProgress
    \/ RunLoop
    \/ WaitForNextHand
    \/ EnterAdvisoryHand
    \/ WriteLog
    \/ MonitorLog
    \/ PullLogsOnTurn
    \/ AdviseOnTurn
    \/ PullLogsAfterHand
    \/ NextHand

\* ------------------------------------------------------ the identity maps
\* The player ids a batch of messages can name.
Ids == 1..MaxIds

\* The ids any of the four maps knows.
KnownIds(maps) == UNION {maps[m] : m \in MapNames}

\* (a check that does not look at the initial stacks)
validateAllMsgWithoutStacks(maps) ==
    \A id \in KnownIds(maps) :
        \A m \in MapNames \ {"id_to_initial_stack"} : id \in maps[m]

\* validateAllMsg: the batch is complete when no id is missing from any of
\* the four maps.
validateAllMsg(maps) ==
    \A id \in KnownIds(maps) : \A m \in MapNames : id \in maps[m]

Verdict(maps) == IF validateAllMsg(maps) THEN "complete" ELSE "incomplete"

MapInit ==
    /\ Frozen
    /\ NoAdded

\* The batch grows by a message from which one map gets a mapping for an id;
\* the batch is validated again.
AnnounceMapping ==
    /\ \E m \in MapNames, id \in Ids :
         /\ id \notin id_maps[m]
         /\ id_maps' = [id_maps EXCEPT ![m] = @ \cup {id}]
    /\ all_valid' = Verdict(id_maps')
    /\ dropped' = FALSE
    /\ UNCHANGED <<bot, timing, cursor, sans_idmaps>>

\* A batch that lacks one of the mappings the last one had is validated.
DropMapping ==
    /\ \E m \in MapNames, id \in Ids :
         /\ id \in id_maps[m]
         /\ id_maps' = [id_maps EXCEPT ![m] = @ \ {id}]
    /\ all_valid' = Verdict(id_maps')
    /\ dropped' = (all_valid = "complete")
    /\ UNCHANGED <<bot, timing, cursor, sans_idmaps>>

MapNext ==
    \/ AnnounceMapping
    \/ DropMapping

\* ------------------------------------------- opening the game, the seat
\* The navigateToGame of the Observers: the ones with waitForBotTurnOrWinner
\* answer with a Response; of the ones with getTableState, part_011 answers
\* with a boolean and part_016 with nothing, throwing on failure.
Navigators ==
    IF engine = "log" THEN {"response"} ELSE {"response", "boolean", "void"}

\* What navigateToGame hands to openGame: a value, or "throws".
navigateToGame(variant, reached) ==
    CASE variant = "response" ->
           IF reached THEN [code |-> "success"] ELSE [code |-> "error"]
      [] variant = "boolean" ->
           IF reached THEN [bool |-> TRUE] ELSE [bool |-> FALSE]
      [] OTHER -> IF reached THEN [undefined |-> TRUE] ELSE [threw |-> TRUE]

\* navigateResponse.code of a value: a boolean has no code, undefined has no
\* properties at all.
CodeOf(value) ==
    IF "code" \in DOMAIN value THEN value.code
    ELSE IF "bool" \in DOMAIN value THEN "undefined"
    ELSE "TypeError"

\* openGame: throws when navigateToGame threw, when the code cannot be read
\* and when the code is 'error'.
openGame(value) ==
    IF "threw" \in DOMAIN value THEN "crashed"
    ELSE IF CodeOf(value) \in {"TypeError", "error"} THEN "crashed"
    ELSE "confirm"

EntryInit ==
    /\ BotInit
    /\ service = "manual" /\ query_retries = 0
    /\ num_players = 2
    /\ max_turn_length = 1
    /\ default_timeout = 0
    /\ NoWait
    /\ NoLog
    /\ NoAdded

\* openGame() against one of the Observers; the game id may be empty or the
\* page may fail to load.
NavigateAndOpen ==
    /\ pc = "open"
    /\ \E variant \in Navigators, reached \in BOOLEAN :
         /\ navigator' = variant
         /\ nav_ok' = IF reached THEN "ok" ELSE "failed"
         /\ pc' = openGame(navigateToGame(variant, reached))
    /\ Did("openGame")
    /\ UNCHANGED <<join_requests, join_code, entry_code, sans_entry, timing,
                   cursor, hand_begun, config, game, query, paused, hand_no,
                   pause_hand, signal, shown, executed>>

\* enterTableInProgress up to and including one sendEnterTableRequest: in
\* observation mode it returns at once; otherwise the loop sends a request and
\* goes round again on every Response but a success.
SendEnterTableRequest ==
    /\ pc = "enter"
    /\ join_requests < MaxJoins
    /\ \E observe \in (IF join_requests = 0 THEN BOOLEAN ELSE {FALSE}),
          code \in {"success", "error"} :
         IF observe
         THEN /\ pc' = "top"
              /\ UNCHANGED <<join_requests, join_code>>
         ELSE /\ join_requests' = join_requests + 1
              /\ join_code' = code
              /\ pc' = IF code = "success" THEN "entry_wait" ELSE "enter"
    /\ Did("enterTableInProgress")
    /\ UNCHANGED <<navigator, nav_ok, entry_code, sans_entry, timing, cursor,
                   hand_begun, config, game, query, paused, hand_no,
                   pause_hand, signal, shown, executed>>

\* The end of enterTableInProgress: waitForTableEntry's Response is logged
\* and the method returns.
WaitForTableEntry ==
    /\ pc = "entry_wait"
    /\ entry_code' \in {"success", "error"}
    /\ pc' = "top"
    /\ Did("waitForTableEntry")
    /\ UNCHANGED <<navigator, nav_ok, join_requests, join_code, sans_entry,
                   timing, cursor, hand_begun, config, game, query, paused,
                   hand_no, pause_hand, signal, shown, executed>>

EntryNext ==
    \/ NavigateAndOpen
    \/ PromptUserConfirmation
    \/ SendEnterTableRequest
    \/ WaitForTableEntry
    \/ RunLoop
    \/ WaitForNextHand

\* ------------------------------------------- the Observer's primitives
\* The page interactions of each primitive that can reject, in the order the
\* code awaits them (both Observers have the same four bodies).
PageSteps(name) ==
    CASE name = "call" -> <<"click .call">>
      [] name = "fold" -> <<"wait .fold", "click .fold">>
      [] name = "check" -> <<"wait .check", "click .check">>
      [] name = "betOrRaise" ->
           <<"read .raise", "click .raise", "wait input", "focus input",
             "type amount", "wait .bet", "click .bet">>

\* (a primitive whose first interaction is made before the try block)
TryStepsAfterFirst(name) == 2..Len(PageSteps(name))

\* The interactions that are inside the primitive's try block.
TrySteps(name) == 1..Len(PageSteps(name))

\* betOrRaise adds the hero's current bet to the amount when the button reads
\* "Raise" and getCurrentBet succeeded; getCurrentBet returns its failures.
AmountTyped(bet_amount, bet_action, current) ==
    IF bet_action = "Raise" /\ current.code = "success"
    THEN bet_amount + current.data
    ELSE bet_amount

\* One call of a primitive in which the interaction number fail_at rejects
\* (0: none does); label is the text read from the raise button. A rejection inside the try block becomes an error
\* Response; one outside it leaves the primitive as a throw.
RunPrimitive(name, fail_at, bet_amount, bet_action, current) ==
    LET steps == PageSteps(name)
        rejected == fail_at # 0
        done == IF rejected THEN fail_at - 1 ELSE Len(steps)
        threw == rejected /\ fail_at \notin TrySteps(name)
    IN [name |-> name,
        amount |-> bet_amount,
        label |-> IF done >= 1 THEN bet_action ELSE "",
        done |-> done,
        rejected |-> rejected,
        threw |-> threw,
        code |-> IF threw THEN "none"
                 ELSE IF rejected THEN "error" ELSE "success",
        typed |-> IF name = "betOrRaise" /\ done >= 5
                  THEN AmountTyped(bet_amount, bet_action, current) ELSE 0]

CurrentBets ==
    {[code |-> "error", data |-> 0]}
    \cup {[code |-> "success", data |-> c] : c \in 0..MaxChips}

\* An Observer in front of a Bot that executes its actions itself.
ActInit ==
    /\ BotInit
    /\ engine = "log" /\ service = "manual"
    /\ ~manual_mode /\ node_env = "development" /\ query_retries = 0
    /\ num_players = 2
    /\ max_turn_length = 1
    /\ default_timeout = 0
    /\ NoWait
    /\ NoLog
    /\ NoAdded

\* call(), fold() or check() on a page where any interaction may reject.
ClickPrimitive ==
    /\ \E name \in {"call", "fold", "check"} :
         \E fail_at \in 0..Len(PageSteps(name)) :
            primitive' = RunPrimitive(name, fail_at, 0, "",
                                      [code |-> "error", data |-> 0])
    /\ UNCHANGED <<bot, timing, cursor, sans_acting>>

\* betOrRaise(bet_amount) on a page where any interaction may reject.
BetOrRaise ==
    /\ \E bet_amount \in 0..MaxChips, bet_action \in {"Bet", "Raise"},
          current \in CurrentBets :
         \E fail_at \in 0..Len(PageSteps("betOrRaise")) :
            primitive' = RunPrimitive("betOrRaise", fail_at, bet_amount,
                                      bet_action, current)
    /\ UNCHANGED <<bot, timing, cursor, sans_acting>>

ActNext ==
    \/ ClickPrimitive
    \/ BetOrRaise

\* ----------------------------------------- the conversation history
\* An AIMessage, known by its role and the hand whose query it belongs to.
Message(role, hand) == [role |-> role, hand |-> hand]

\* The prev_messages in the AIResponse of ManualChatGPTService.query:
\* manual-chatgpt-service.ts returns the history with the input appended;
\* openai-service.ts opens an empty history with the system prompt, pushes
\* the input and then the pasted reply.
ManualPrevMessages(prev, hand) == Append(prev, Message("user", hand))

LegacyPrevMessages(prev, hand) ==
    LET opened == IF prev = <<>> THEN <<Message("system", hand)>> ELSE prev
    IN Append(Append(opened, Message("user", hand)), Message("assistant", hand))

QueryPrevMessages(prev, hand) ==
    IF service = "manual" THEN ManualPrevMessages(prev, hand)
    ELSE LegacyPrevMessages(prev, hand)

TalkInit ==
    /\ BotInit
    /\ engine = "log" /\ observer = "selector"
    /\ manual_mode /\ query_retries = 0
    /\ num_players = 2
    /\ max_turn_length = 1
    /\ default_timeout = 0
    /\ NoWait
    /\ NoLog
    /\ NoAdded

\* getAction(query) on a hero turn: the service is asked with the history of
\* the conversation so far and the history it returns is kept for the next
\* call. The Bot passes the query only.
AskOracle ==
    /\ Len(messages) < MaxMessages
    /\ prev_messages' = messages
    /\ query_hand' = hand_no
    /\ messages' = QueryPrevMessages(messages, hand_no)
    /\ UNCHANGED <<hand_history, bot, timing, cursor, sans_talk>>

\* The end of run()'s loop body: this.hand_history = []; table.nextHand().
FinishHand ==
    /\ hand_no < MaxHands
    /\ hand_history' = <<>>
    /\ hand_no' = hand_no + 1
    /\ UNCHANGED <<messages, prev_messages, query_hand, timing, cursor,
                   sans_talk, hand_begun, config, game, query, paused, pc,
                   pause_hand, signal, ops, last_op, shown, executed>>

TalkNext ==
    \/ AskOracle
    \/ FinishHand

\* ------------------------------------- the aggregate and the snapshots
\* A number as JavaScript has it: a value or NaN.
NaN == [nan |-> TRUE, value |-> 0]

Num(n) == [nan |-> FALSE, value |-> n]

Times(v, factor) == IF v.nan THEN NaN ELSE Num(v.value * factor)

\* The innerText of a stack or bet field: nothing, or a text with or without
\* digits, with or without a letter k or m in it.
Texts ==
    {[empty |-> TRUE, digits |-> -1, k |-> FALSE, m |-> FALSE]}
    \cup {[empty |-> FALSE, digits |-> d, k |-> k, m |-> m] :
            d \in -1..MaxShown, k \in BOOLEAN, m \in {FALSE}}
    \cup {[empty |-> FALSE, digits |-> d, k |-> FALSE, m |-> TRUE] :
            d \in 0..MaxShown}

\* parseFloat(text.replace(/[^0-9.]/g, '')): the digits of the text, NaN when
\* it has none.
parseFloat(text) == IF text.digits = -1 THEN NaN ELSE Num(text.digits)

\* parseValue of part_012's getTableState.
ScalingParseValue(text) ==
    IF text.empty THEN Num(0)
    ELSE IF text.k THEN Times(parseFloat(text), 1000)
    ELSE IF text.m THEN Times(parseFloat(text), 1000000)
    ELSE parseFloat(text)

\* parseValue of part_010's getTableState.
GuardedParseValue(text) ==
    IF text.empty THEN Num(0)
    ELSE IF parseFloat(text).nan THEN Num(0)
    ELSE parseFloat(text)

parseValue(text) ==
    IF reader = "part_012" THEN ScalingParseValue(text)
    ELSE GuardedParseValue(text)

\* The stack and bet getTableState reports for a player.
PlayerStates ==
    {[stack |-> parseValue(stackText), bet |-> parseValue(betText)] :
        stackText \in Texts, betText \in Texts}

\* What getTableState returns at a table that shows felt_cards community
\* cards and the hero's hole cards: null, or the pot, the cards, the hero's
\* turn flag and stack, and the stack and bet of a player as parsed from the
\* page.
TableStates ==
    {[isNull |-> TRUE, selfTurn |-> FALSE, otherTurn |-> FALSE, active |-> 0,
      cards |-> 0, pot |-> 0, stack |-> 0, hole |-> 0,
      player |-> [stack |-> Num(0), bet |-> Num(0)]]}
    \cup
    {[isNull |-> FALSE, selfTurn |-> turn = "hero", otherTurn |-> turn = "other",
      active |-> IF turn = "none" THEN active ELSE 2,
      cards |-> felt_cards, pot |-> pot, stack |-> stack, hole |-> felt_hole,
      player |-> player] :
        turn \in {"hero", "other", "none"}, active \in 1..2,
        pot \in 0..MaxShown, stack \in 1..(MaxShown + 1),
        player \in PlayerStates}

\* Table.setHero(name): the Table knows who the hero is; it is given neither
\* cards nor a stack.
setHero ==
    /\ has_hero' = TRUE
    /\ UNCHANGED <<hero_hand, hero_stack>>

\* Table.clearPlayers, addPlayer(name, stack, seat) and Player.setBet(bet);
\* game.setPot and game.setCommunityCards keep what they are given.
storeSnapshot(gameState) ==
    /\ players' = <<gameState.player>>
    /\ game_pot' = convertToBBs(<<gameState.pot, 1>>, big_blind')
    /\ game_cards' = gameState.cards
    /\ prev_cards' = IF updated THEN game_cards ELSE -1
    /\ updated' = TRUE

\* updateModelsFromState(gameState): part_003 sets the blinds to 2 / 1 and
\* writes the hero's hand and stack through updateHero, which does nothing
\* without a hero; part_002 writes them when the Table has a hero and names
\* the hero otherwise.
updateAggregateFromState(gameState) ==
    /\ big_blind' = IF updater = "part_003" THEN 2 ELSE big_blind
    /\ storeSnapshot(gameState)
    /\ IF has_hero
       THEN /\ hero_hand' = gameState.hole
            /\ hero_stack' = convertToBBs(<<gameState.stack, 1>>, big_blind')
            /\ UNCHANGED has_hero
       ELSE IF updater = "part_002"
       THEN setHero
       ELSE UNCHANGED <<has_hero, hero_hand, hero_stack>>

AggInit ==
    /\ BotInit
    /\ engine = "snapshot" /\ service = "manual"
    /\ manual_mode /\ query_retries = 0
    /\ num_players = 2
    /\ max_turn_length = 1
    /\ default_timeout = 0
    /\ NoWait
    /\ NoLog
    /\ NoMaps
    /\ NoEntry
    /\ NoPrimitive
    /\ NoTalk
    /\ NoBrowser
    /\ NoActuation
    /\ NoStart
    /\ NoWatch
    /\ NoRetry
    /\ NoLedger
    /\ updater \in {"part_002", "part_003"}
    /\ reader = "part_010"
    /\ NewAggregate

\* The same Bot in front of either getTableState, at a table whose board
\* stays as it is.
ReadInit ==
    /\ BotInit
    /\ engine = "snapshot" /\ service = "manual"
    /\ manual_mode /\ query_retries = 0
    /\ num_players = 2
    /\ max_turn_length = 1
    /\ default_timeout = 0
    /\ NoWait
    /\ NoLog
    /\ NoMaps
    /\ NoEntry
    /\ NoPrimitive
    /\ NoTalk
    /\ NoBrowser
    /\ NoActuation
    /\ NoStart
    /\ NoWatch
    /\ NoRetry
    /\ NoLedger
    /\ updater \in {"part_002", "part_003"}
    /\ reader \in {"part_010", "part_012"}
    /\ NewAggregate

\* The table deals the flop, the turn or the river.
Deal ==
    /\ felt_cards < 5
    /\ felt_cards' = IF felt_cards = 0 THEN 3 ELSE felt_cards + 1
    /\ UNCHANGED <<updater, reader, felt_hole, has_hero, hero_hand, game_pot,
                   game_cards, players, snap, prev_cards, updated, bot, timing,
                   cursor, sans_aggregate>>

\* The table starts its next hand: the board is cleared and the hero gets new
\* hole cards.
NewDeal ==
    /\ felt_cards' = 0
    /\ felt_hole' = 3 - felt_hole
    /\ UNCHANGED <<updater, reader, has_hero, hero_hand, game_pot, game_cards,
                   players, snap, prev_cards, updated, bot, timing, cursor,
                   sans_aggregate>>

\* One round of the snapshot engine's advisoryOneHand: getTableState, then
\* on the hero's turn updateModelsFromState and constructQuery, on a finished
\* hand updateModelsFromState and the end of the loop.
PollTable ==
    /\ pc = "monitor"
    /\ \E gameState \in TableStates :
         IF gameState.isNull
         THEN /\ pc' = "monitor"
              /\ UNCHANGED <<game, has_hero, hero_hand, game_pot, game_cards,
                             players, snap, prev_cards, updated>>
         ELSE IF gameState.selfTurn
         THEN /\ updateAggregateFromState(gameState)
              /\ snap' = [pot |-> gameState.pot, hole |-> gameState.hole,
                          stack |-> gameState.stack]
              /\ pc' = "query"
         ELSE IF isHandOver(gameState)
         THEN /\ updateAggregateFromState(gameState)
              /\ pc' = "reset"
              /\ UNCHANGED snap
         ELSE /\ pc' = "monitor"
              /\ UNCHANGED <<game, has_hero, hero_hand, game_pot, game_cards,
                             players, snap, prev_cards, updated>>
    /\ UNCHANGED <<updater, reader, felt_cards, felt_hole, sans_aggregate,
                   timing, cursor, hand_begun, config, query, paused, hand_no,
                   pause_hand, signal, ops, last_op, shown, executed>>

\* The rest of a hero turn: the query, the advice and the operator's move.
AdviseFromAggregate ==
    /\ pc = "query"
    /\ pc' = "monitor"
    /\ snap' = [pot |-> 0, hole |-> 0, stack |-> 0]
    /\ UNCHANGED <<updater, reader, felt_cards, felt_hole, has_hero, hero_hand,
                   game_pot, game_cards, players, prev_cards, updated,
                   sans_aggregate, timing, cursor, hand_begun, config, game,
                   query, paused, hand_no, pause_hand, signal, ops, last_op,
                   shown, executed>>

\* The end of run()'s loop body: table.nextHand(). Nothing is called on the
\* Game.
NextTableHand ==
    /\ pc = "reset"
    /\ hand_no < MaxHands
    /\ hand_no' = hand_no + 1
    /\ updated' = FALSE
    /\ prev_cards' = -1
    /\ pc' = "top"
    /\ UNCHANGED <<updater, reader, felt_cards, felt_hole, has_hero, hero_hand,
                   game_pot, game_cards, players, snap, sans_aggregate, timing,
                   cursor, hand_begun, config, game, query, paused, pause_hand,
                   signal, ops, last_op, shown, executed>>

AggNext ==
    \/ OpenGame
    \/ PromptUserConfirmation
    \/ RunLoop
    \/ Deal
    \/ NewDeal
    \/ PollTable
    \/ AdviseFromAggregate
    \/ NextTableHand

ReadNext ==
    \/ OpenGame
    \/ PromptUserConfirmation
    \/ RunLoop
    \/ PollTable
    \/ AdviseFromAggregate
    \/ NextTableHand

\* ------------------------------------------------ the Observer's browser
\* The values an environment variable is told apart by: unset or blank, set
\* to something without the scheme init accepts, set to a URL init accepts.
WsValues == {"", "other", "ws"}
UrlValues == {"", "other", "http"}
Launchers == {"frame", "part_010", "part_012"}

\* init() of puppeteer-service.ts: connect through the endpoint, else through
\* the URL; when that threw and a URL is set, connect through the endpoint
\* /json/version names; when that threw too, or no URL is set, launch.
FrameInit(ws, url, connected, refreshed) ==
    IF ws = "ws" /\ connected THEN "ws"
    ELSE IF ws # "ws" /\ url = "http" /\ connected THEN "url"
    ELSE IF url # "" /\ refreshed THEN "refreshed"
    ELSE "launched"

\* init() of part_010 and part_012: connect through the endpoint, else
\* through the URL, else launch; launch whenever the connect threw.
PlainInit(ws, url, connected) ==
    IF ws = "ws" THEN (IF connected THEN "ws" ELSE "launched")
    ELSE IF url = "http" THEN (IF connected THEN "url" ELSE "launched")
    ELSE "launched"

ObserverInit(variant, ws, url, connected, refreshed) ==
    IF variant = "frame" THEN FrameInit(ws, url, connected, refreshed)
    ELSE PlainInit(ws, url, connected)

\* closeBrowser(): disconnect() leaves the browser running, close() ends it.
\* puppeteer-service.ts and part_012 look at BROWSER_WS_ENDPOINT only,
\* part_010 at both variables.
closeBrowser(variant, ws, url) ==
    IF variant = "part_010"
    THEN (IF ws # "" \/ url # "" THEN "detached" ELSE "closed")
    ELSE (IF ws # "" THEN "detached" ELSE "closed")

BrowserInit ==
    /\ Frozen
    /\ NoMaps /\ NoEntry /\ NoPrimitive /\ NoTalk /\ NoAggregate /\ NoActuation /\ NoStart /\ NoWatch /\ NoRetry /\ NoLedger
    /\ launcher \in Launchers
    /\ ws_endpoint \in WsValues
    /\ browser_url \in UrlValues
    /\ origin = "none"
    /\ browser = "none"

\* puppeteer_service.init() at start-up; a connect may be refused.
InitObserver ==
    /\ browser = "none"
    /\ \E connected \in BOOLEAN, refreshed \in BOOLEAN :
         origin' = ObserverInit(launcher, ws_endpoint, browser_url, connected,
                                refreshed)
    /\ browser' = "running"
    /\ UNCHANGED <<launcher, ws_endpoint, browser_url, bot, timing, cursor,
                   sans_browsing>>

\* puppeteer_service.closeBrowser() at the end of the run.
CloseBrowser ==
    /\ browser = "running"
    /\ browser' = closeBrowser(launcher, ws_endpoint, browser_url)
    /\ UNCHANGED <<launcher, ws_endpoint, browser_url, origin, bot, timing,
                   cursor, sans_browsing>>

BrowserNext ==
    \/ InitObserver
    \/ CloseBrowser

\* ------------------------------------------- performBotAction, step by step
ExecInit ==
    /\ BotInit
    /\ engine = "log" /\ service = "manual" /\ observer = "selector"
    /\ ~manual_mode /\ query_retries = 1
    /\ num_players = 2
    /\ max_turn_length = 1
    /\ default_timeout = 0
    /\ NoWait
    /\ NoLog
    /\ NoAdded

\* What the page shows after fold(): no alert, the unnecessary-fold alert, or
\* an alert with another text.
Alerts == {"absent", "unnecessary", "other"}

\* The awaited page interactions of cancelUnnecessaryFold, in order; the
\* click is made only when the alert's text is the unnecessary-fold text.
CancelSteps(alert) ==
    IF alert = "unnecessary"
    THEN <<"waitForSelector .alert-1", "$eval .content", "click .button-1.red">>
    ELSE <<"waitForSelector .alert-1", "$eval .content">>

\* cancelUnnecessaryFold() on a page showing alert, where interaction fail_at
\* rejects (0: none does); waiting for an alert that is absent times out.
cancelUnnecessaryFold(alert, fail_at) ==
    LET threw == alert = "absent" \/ fail_at \in 1..Len(CancelSteps(alert)) IN
    [code |-> IF threw THEN "error" ELSE "success",
     clicked |-> ~threw /\ alert = "unnecessary"]

\* performBotAction(bot_action) with what the operator answered and what the
\* page did.
PerformBotActionOnPage ==
    /\ pc = "perform"
    /\ \E confirmed \in BOOLEAN, alert \in Alerts, fail_at \in 0..3 :
         LET asked == ~manual_mode /\ node_env # "development"
             runs == ~manual_mode /\ (asked => confirmed)
             folds == runs /\ bot_action.action_str = "fold"
             res == cancelUnnecessaryFold(alert, fail_at)
         IN  /\ fail_at <= Len(CancelSteps(alert))
             /\ confirm' = IF ~asked THEN "none"
                           ELSE IF confirmed THEN "yes" ELSE "no"
             /\ fold_alert' = IF folds THEN alert ELSE "none"
             /\ alert_clicked' = (folds /\ res.clicked)
             /\ cancel_code' = IF folds THEN res.code ELSE "none"
             /\ executed' = Primitives(bot_action, confirmed,
                                       res.code = "success")
    /\ pc' = HandLoopNext("performed")
    /\ Did("performBotAction")
    /\ UNCHANGED <<timing, cursor, hand_begun, sans_actuation, config, game,
                   query, paused, hand_no, pause_hand, signal, shown>>

ExecNext ==
    \/ OpenGame
    \/ PromptUserConfirmation
    \/ EnterTableInProgress
    \/ RunLoop
    \/ WaitForNextHand
    \/ UpdateGameInfo
    \/ MonitorLog
    \/ PullLogs
    \/ UpdateFromTable
    \/ QueryCall
    \/ QuerySleep
    \/ DisplayFallbackAdvice
    \/ PerformBotActionOnPage
    \/ EndOfHand
    \/ ResetHand

\* ------------------------------------------- the start of advisory mode
\* The advisory Bots: bot.ts is the log engine, part_003 and the second Bot of
\* part_002 (lines 410-582) are snapshot engines.
Prompters == {"bot.ts", "part_002", "part_003"}

StartInit ==
    /\ BotInit
    /\ manual_mode /\ service = "manual" /\ query_retries = 1
    /\ num_players = 2
    /\ max_turn_length = 1
    /\ default_timeout = 0
    /\ NoWait
    /\ NoLog
    /\ NoMaps /\ NoEntry /\ NoPrimitive /\ NoTalk /\ NoAggregate /\ NoBrowser /\ NoActuation /\ NoWatch /\ NoRetry /\ NoLedger
    /\ prompter \in (IF engine = "log" THEN {"bot.ts"}
                     ELSE {"part_002", "part_003"})
    /\ ready = "none"

\* promptUserConfirmation(message) as each Bot defines it: bot.ts and
\* part_003 return the answer, part_002 exits the process on a no.
promptUserConfirmation(variant, confirmed) ==
    IF variant = "part_002" /\ ~confirmed THEN "exit" ELSE "return"

\* run() between openGame and the table: in manual mode the prompt
\* 'Ready to start advisory mode?', whose returned value run() does not read.
ConfirmStart ==
    /\ pc = "confirm"
    /\ manual_mode
    /\ \E confirmed \in BOOLEAN :
         /\ ready' = IF confirmed THEN "yes" ELSE "no"
         /\ pc' = IF promptUserConfirmation(prompter, confirmed) = "exit"
                  THEN "exited"
                  ELSE IF engine = "log" THEN "enter" ELSE "top"
    /\ Did("promptUserConfirmation")
    /\ UNCHANGED <<prompter, timing, cursor, hand_begun, sans_starting, config,
                   game, query, paused, hand_no, pause_hand, signal, shown,
                   executed>>

StartNext ==
    \/ OpenGame
    \/ ConfirmStart
    \/ EnterTableInProgress
    \/ RunLoop
    \/ HandlePauseMode
    \/ WaitForNextHand
    \/ UpdateGameInfo
    \/ MonitorLog
    \/ PullLogs
    \/ UpdateFromTable
    \/ MonitorSnapshot
    \/ QueryCall
    \/ QuerySleep
    \/ DisplayAdvice
    \/ DisplayFallbackAdvice
    \/ WaitForUserExecution
    \/ EndOfHand
    \/ ResetHand

\* ------------------------------- the snapshot engines' monitoring loop
WatchInit ==
    /\ BotInit
    /\ engine = "snapshot" /\ service = "manual"
    /\ manual_mode /\ query_retries = 0
    /\ num_players = 2
    /\ max_turn_length = 1
    /\ default_timeout = 0
    /\ NoWait
    /\ NoLog
    /\ NoMaps /\ NoEntry /\ NoPrimitive /\ NoTalk /\ NoAggregate /\ NoBrowser /\ NoActuation /\ NoStart /\ NoRetry /\ NoLedger
    /\ watcher \in {"part_002", "part_003"}
    /\ seen = NothingSeen
    /\ models_updated = FALSE

\* The fields of a snapshot advisoryOneHand and isHandOver read.
Seen(gameState) ==
    [isNull |-> gameState.isNull, self |-> gameState.self,
     selfTurn |-> gameState.selfTurn, otherTurn |-> gameState.otherTurn,
     active |-> gameState.active, cards |-> gameState.cards]

\* The guard at the top of part_002's round: no snapshot, or no player of it
\* flagged isSelf. part_003 tests !gameState only.
PollsAgain(variant, gameState) ==
    \/ gameState.isNull
    \/ variant = "part_002" /\ ~gameState.self

\* 'continue': the round ends and the loop polls again.
Continue(gameState) ==
    /\ hand_begun' \in (IF hand_begun \/ HandRunning(gameState)
                        THEN {TRUE} ELSE BOOLEAN)
    /\ CycleStart("getTableState", "quiet")
    /\ pc' = "monitor"
    /\ NoQuery
    /\ UNCHANGED game

\* One round of advisoryOneHand of either snapshot engine.
WatchSnapshot ==
    /\ pc = "monitor"
    /\ \E gameState \in Snapshots :
         /\ seen' = Seen(gameState)
         /\ IF PollsAgain(watcher, gameState)
            THEN /\ Continue(gameState)
                 /\ models_updated' = FALSE
            ELSE /\ OnSnapshot(gameState)
                 /\ models_updated' = (pc' # "monitor")
    /\ UNCHANGED <<watcher, timing, cursor, sans_watching, config, paused,
                   hand_no, pause_hand>>

WatchNext ==
    \/ OpenGame
    \/ PromptUserConfirmation
    \/ RunLoop
    \/ HandlePauseMode
    \/ WatchSnapshot
    \/ QueryCall
    \/ DisplayAdvice
    \/ DisplayFallbackAdvice
    \/ WaitForUserExecution
    \/ ResetHand

\* ------------------------------------- a query retried on one history
\* An AIMessage: the role and the text. A text is the playstyle prompt, the
\* n-th input, or what the operator pasted: nothing, or an action; a pasted
\* text is no input.
AIMessage(role, text) == [role |-> role, text |-> text]
PlaystylePrompt == <<"playstyle", 0>>
Input(n) == <<"input", n>>
Replies == {<<"", 0>>, <<"fold", 0>>}

RetryInit ==
    /\ Frozen
    /\ NoMaps /\ NoEntry /\ NoPrimitive /\ NoTalk /\ NoAggregate /\ NoBrowser /\ NoActuation /\ NoStart /\ NoWatch /\ NoLedger
    /\ history = <<>>
    /\ formatted = <<>>
    /\ input = 0
    /\ attempts = 0
    /\ last_failed = FALSE

\* (a history to which every call pushes its input)
BuildHistoryAlwaysPushing(prev, text, playstyle_ok) ==
    IF Len(prev) > 0
    THEN Append(prev, AIMessage("user", text))
    ELSE IF playstyle_ok
         THEN <<AIMessage("system", PlaystylePrompt), AIMessage("user", text)>>
         ELSE <<AIMessage("user", text)>>

\* The head of query: the input is pushed to a history that does not end
\* with it; an empty history is replaced by the system prompt and the input,
\* or by the input alone when the playstyle has no prompt.
BuildHistory(prev, text, playstyle_ok) ==
    IF Len(prev) > 0
    THEN IF text # prev[Len(prev)].text
         THEN Append(prev, AIMessage("user", text))
         ELSE prev
    ELSE IF playstyle_ok
         THEN <<AIMessage("system", PlaystylePrompt), AIMessage("user", text)>>
         ELSE <<AIMessage("user", text)>>

\* query(input, prev_messages) with the history the caller holds. The call
\* throws when the clipboard or the prompt rejects, or when the pasted text
\* does not parse; otherwise the reply is pushed and the history returned,
\* which the caller keeps. A push changes the caller's array; the history
\* that replaces an empty one is a new array, which a throw loses.
Query(text) ==
    \E playstyle_ok \in BOOLEAN, threw \in BOOLEAN, reply \in Replies :
       LET built == BuildHistory(history, text, playstyle_ok) IN
       /\ formatted' = built
       /\ last_failed' = threw
       /\ history' = IF threw
                     THEN (IF Len(history) > 0 THEN built ELSE history)
                     ELSE Append(built, AIMessage("assistant", reply))

\* The first call for the next input.
FirstAttempt ==
    /\ input < MaxInputs
    /\ input' = input + 1
    /\ attempts' = 1
    /\ Query(Input(input + 1))
    /\ UNCHANGED <<bot, timing, cursor, sans_retrying>>

\* The call again, after a throw, with the same input and the same history.
RetryAttempt ==
    /\ last_failed
    /\ attempts <= MaxRetries
    /\ attempts' = attempts + 1
    /\ Query(Input(input))
    /\ UNCHANGED <<input, bot, timing, cursor, sans_retrying>>

RetryNext ==
    \/ FirstAttempt
    \/ RetryAttempt

\* ------------------------------------------------- the player statistics
Databases == {"part_006", "part_008"}

LedgerInit ==
    /\ Frozen
    /\ NoMaps /\ NoEntry /\ NoPrimitive /\ NoTalk /\ NoAggregate /\ NoBrowser /\ NoActuation /\ NoStart /\ NoWatch /\ NoRetry
    /\ db \in Databases
    /\ stored = <<>>
    /\ tally = [total_hands |-> 0, walks |-> 0, vpip_hands |-> 0,
                pfr_hands |-> 0]

\* query('SELECT ...', [name]): the rows found. MockDBService (part_008)
\* answers with the row its Map holds under the name or with null, DBService
\* (part_006) with [].
Select(key) ==
    IF db = "part_008" /\ key \in DOMAIN stored THEN <<stored[key]>> ELSE <<>>

\* emptyOrSingleRow(rows): the row, or nothing when there is none.
emptyOrSingleRow(rows) ==
    IF Len(rows) = 0 THEN [found |-> FALSE, row |-> NoRow]
    ELSE [found |-> TRUE, row |-> rows[1]]

\* PlayerService.get(player_name)
Get(key) == emptyOrSingleRow(Select(key))

\* query('INSERT ...' or 'UPDATE ...', params): MockDBService reads the
\* parameters as [name, total_hands, walks, vpip_hands, pfr_hands] and sets
\* the row under the first of them; DBService does nothing.
Write(params) ==
    IF db = "part_008"
    THEN LET row == [name |-> params[1], total_hands |-> params[2],
                     walks |-> params[3], vpip_hands |-> params[4],
                     pfr_hands |-> params[5]]
         IN  stored' = [key \in DOMAIN stored \cup {params[1]} |->
                           IF key = params[1] THEN row ELSE stored[key]]
    ELSE UNCHANGED stored

\* PlayerService.create(player_stats_JSON): the name comes first.
Create(s) ==
    Write(<<s.name, Number(s.total_hands), Number(s.walks),
            Number(s.vpip_hands), Number(s.pfr_hands)>>)

\* PlayerService.update(player_name, player_stats_JSON): the name comes last.
Update(player_name, s) ==
    Write(<<Number(s.total_hands), Number(s.walks), Number(s.vpip_hands),
            Number(s.pfr_hands), player_name>>)

Bit(flag) == IF flag THEN 1 ELSE 0

\* updateHandStats(player_name, vpip, pfr, walked)
UpdateHandStats ==
    /\ tally.total_hands < MaxCalls
    /\ \E vpip \in BOOLEAN, pfr \in BOOLEAN, walked \in BOOLEAN :
         LET existing == Get(PlayerName)
             row == existing.row
         IN
         /\ tally' = [total_hands |-> tally.total_hands + 1,
                      walks |-> tally.walks + Bit(walked),
                      vpip_hands |-> tally.vpip_hands + Bit(vpip),
                      pfr_hands |-> tally.pfr_hands + Bit(pfr)]
         /\ IF existing.found
            THEN Update(PlayerName,
                        [total_hands |-> NumberOf(row.total_hands) + 1,
                         walks |-> NumberOf(row.walks) + Bit(walked),
                         vpip_hands |-> NumberOf(row.vpip_hands) + Bit(vpip),
                         pfr_hands |-> NumberOf(row.pfr_hands) + Bit(pfr)])
            ELSE Create([name |-> PlayerName, total_hands |-> 1,
                         walks |-> Bit(walked), vpip_hands |-> Bit(vpip),
                         pfr_hands |-> Bit(pfr)])
    /\ UNCHANGED <<db, bot, timing, cursor, sans_ledger>>

LedgerNext ==
    \/ UpdateHandStats

\* ================================================================ claims
Polls == {"waitForBotTurnOrWinner", "getTableState", "waitForNextHand"}

Max(a, b) == IF a >= b THEN a ELSE b

\* C1: a queryBotAction(query, retries) with retries >= 0 whose Oracle calls all
\* fail raises after exactly retries + 1 calls (3 calls for retries = 2).
C1_RaisesAfterRetriesPlusOne ==
    (q_result = "raised" /\ query_retries >= 0) => q_calls = query_retries + 1

C1_Witness == q_result = "raised" /\ query_retries = 2 /\ q_calls = 3

\* C2 (as stated): queryBotAction never calls the Oracle more than retries + 1
\* times, for every value of retries.
C2_AtMostRetriesPlusOne == q_calls <= query_retries + 1

\* C2 (amended): queryBotAction never calls the Oracle more than
\* max(retries, 0) + 1 times: the first call is made whatever retries is.
C2_AtMostMaxRetriesPlusOne == q_calls <= Max(query_retries, 0) + 1

C2_Witness == q_result = "raised" /\ query_retries = -1 /\ q_calls = 1

\* C3: in the advisory loop, once queryBotAction has raised, the next step
\* displays the fallback advice (check if possible, otherwise fold), then the
\* operator is prompted and the loop polls again; no Oracle call is made for
\* that turn after the raise and the loop does not stop.
C3_FallbackOnRaise ==
    [][(manual_mode /\ q_result = "raised") =>
          /\ pc \in {"fallback", "wait_user", "monitor"}
          /\ pc = "fallback" =>
                /\ pc' = "wait_user"
                /\ shown'.type = "fallback"
                /\ shown'.action = "check, otherwise fold"
                /\ q_calls' = q_calls
          /\ pc = "wait_user" =>
                /\ pc' = "monitor"
                /\ shown' = shown
                /\ q_calls' = q_calls
          /\ pc = "monitor" => last_op' \in Polls]_vars

C3_Witness ==
    /\ manual_mode /\ q_result = "raised" /\ pc = "wait_user"
    /\ shown.type = "fallback" /\ "check" \in shown.available

\* C4: a query never returns an action for a response text that names no
\* action (an empty text included): such a response is a failed attempt.
C4_UnparsedResponseFails == q_result = "returned" => q_text = "action"

\* C5: a bet or raise of size <= 0 is never displayed as the recommended
\* action and never passed to betOrRaise.
C5_NonPositiveBetRejected ==
    bot_action.action_str \in {"bet", "raise"} /\ bot_action.bet_size_in_BBs <= 0
    => /\ shown.type # "advice"
       /\ \A i \in 1..Len(executed) : executed[i][1] # "betOrRaise"

\* C6: the size shown or executed for an all-in is the hero's stack, in big
\* blinds when shown and in chips when executed.
C6_AllInIsHeroStack ==
    bot_action.action_str = "all-in"
    => /\ (shown.type = "advice" /\ shown.size # <<>>) => shown.size[1] = hero_stack
       /\ \A i \in 1..Len(executed) :
             executed[i][1] = "betOrRaise"
             => executed[i][2][1] * hero_stack[2]
                = hero_stack[1] * big_blind * executed[i][2][2]

\* C7: in manual mode no Observer action primitive is ever invoked.
C7_ManualNeverActs == manual_mode => executed = <<>>

C7_Witness == manual_mode /\ pc = "wait_user" /\ shown.type = "advice"

\* C8: when the advisory loop of the log engine is about to poll again after
\* a poll that reported the hero's turn, it has pulled the logs, updated the
\* table, queried the Oracle and presented the result.
C8_HeroTurnHandled ==
    (engine = "log" /\ manual_mode /\ pc = "monitor" /\ signal = "hero")
    => /\ {"pullAndProcessLogs", "updateFromTable", "getAction"} \subseteq ops
       /\ shown.type # "none"

\* C9: while paused, the engine makes no Observer poll and no Oracle query.
C9_PausedMakesNoPoll == paused => last_op \notin Polls \cup {"getAction"}

\* C10: while paused, the hand being monitored stays the one that was
\* monitored at the pause request (no reset, no wait for the next hand), and
\* the resume finds the engine in that hand.
C10_PauseKeepsHand ==
    /\ paused => hand_no = pause_hand /\ last_op \notin {"nextHand", "waitForNextHand"}
    /\ (last_op = "handlePauseMode" /\ ~paused) => hand_no = pause_hand

\* The operations of the per-hand monitoring loop and the positions inside it.
MonitorOps == {"waitForBotTurnOrWinner", "pullAndProcessLogs", "updateFromTable",
               "getAction", "sleep", "displayAdvice", "displayFallbackAdvice",
               "waitForUserExecution", "performBotAction"}

MonitorPcs == {"monitor", "pull", "update", "query", "query_sleep", "display",
               "fallback", "wait_user", "perform"}

\* C11: in run() of the log engine every hand goes through its steps in order:
\* the wait for the next hand (after entering the table, after a reset, or
\* after a pause prompt), the capture of player count and game info, the
\* monitoring loop, the end-of-hand processing, the reset; the reset is done
\* for a hand that was waited for and not reset yet, and leaves none.
C11_HandStepsInOrder ==
    engine = "log" =>
       /\ pc = "next_hand" =>
             last_op \in {"enterTableInProgress", "handlePauseMode", "nextHand"}
       /\ pc = "game_info" => last_op = "waitForNextHand"
       /\ pc \in MonitorPcs => last_op \in {"updateGameInfo"} \cup MonitorOps
       /\ pc = "hand_end" => last_op = "waitForBotTurnOrWinner" /\ signal = "winner"
       /\ pc = "reset" => last_op = "endOfHand" /\ hand_begun
       /\ last_op = "nextHand" => ~hand_begun /\ pc \in {"top", "pause", "next_hand"}

C11_Witness ==
    engine = "log" /\ pc = "next_hand" /\ last_op = "nextHand" /\ hand_no = 1

\* C12: table.nextHand() runs only for a hand that has begun at the table
\* since the last table.nextHand(): at most once per hand played.
C12_ResetOncePerHand == [][hand_no' # hand_no => hand_begun]_vars

\* C13: after a waitForBotTurnOrWinner that returned an error result the
\* engine is not back at the poll with nothing reported.
C13_TimeoutSurfaced ==
    (engine = "log" /\ last_op = "waitForBotTurnOrWinner" /\ signal = "quiet")
    => ~(pc = "monitor" /\ shown.type = "none")

\* C14 (as stated): the timeout of the waits of the hero-turn-or-winner poll
\* is 1000 * (num_players - 1) * max_turn_length * 4 milliseconds.
C14_DeadlineIsHandTimeout ==
    waits > 0 => wait_timeout = 1000 * (num_players - 1) * max_turn_length * 4

\* C14 (amended): the timeout of each wait of the hero-turn-or-winner poll is
\* five times 1000 * (num_players - 1) * max_turn_length * 4, plus the
\* Observer's default timeout.
C14_DeadlineIsFiveHandTimeoutsPlusDefault ==
    waits > 0 =>
       wait_timeout
       = 5 * (1000 * (num_players - 1) * max_turn_length * 4) + default_timeout

C14_Witness ==
    /\ waits = 2 /\ num_players = 6 /\ max_turn_length = 30
    /\ default_timeout = 1 /\ wait_timeout = 3000001

\* C15: computeTimeout(num_players, max_turn_length, num_streets) is
\* 1000 * (num_players - 1) * max_turn_length * num_streets, that is one
\* second per street and turn for every player but one; 600000 for (6, 30, 4).
C15_ComputeTimeoutFormula ==
    num_streets > 0 =>
       /\ computed = 1000 * num_players * max_turn_length * num_streets
                     - 1000 * max_turn_length * num_streets
       /\ (num_players = 6 /\ max_turn_length = 30 /\ num_streets = 4)
             => computed = 600000

C15_Witness ==
    /\ num_players = 6 /\ max_turn_length = 30 /\ num_streets = 4
    /\ computed = 600000 /\ waits = 0

Range(s) == {s[i] : i \in 1..Len(s)}

\* C16: a pull on a hero turn that fails leaves the cursor and the ingested
\* messages as they were and makes no decision query; the next thing the
\* engine does is poll the Observer again.
C16_FailedPullSkipsCycle ==
    [][/\ (pc = "pull" /\ pc' = "monitor") =>
             /\ processed_logs' = processed_logs
             /\ logs_queue' = logs_queue
             /\ "getAction" \notin ops'
       /\ (pc = "monitor" /\ last_op = "pullAndProcessLogs") =>
             \/ last_op' = "waitForBotTurnOrWinner"
             \/ UNCHANGED <<pc, ops, last_op, processed_logs, logs_queue>>]_vars

C16_Witness ==
    /\ pc = "monitor" /\ last_op = "pullAndProcessLogs" /\ signal = "hero"
    /\ processed_logs.last_created > 0 /\ ~processed_logs.first_fetch
    /\ log_len > processed_logs.last_created

\* C17: the cursor's watermark never moves backward, a hand boundary included.
C17_WatermarkMonotonic ==
    [][processed_logs'.last_created >= processed_logs.last_created]_vars

\* C18: over the session no log line is fetched and parsed more than once.
C18_ParsedAtMostOnce == \A i \in 1..log_len : parses[i] <= 1

\* C19: when the end-of-hand processing is done, exactly one final pull was
\* made, from the watermark the session had reached when the hand began.
C19_FinalPullFromHandMark ==
    pc = "reset" => Len(end_pulls) = 1 /\ end_pulls[1] = hand_mark

C29_ReturnsAtFirstSuccess ==
    /\ q_result = "returned" =>
         q_sleeps = q_calls - 1 /\ q_calls <= Max(query_retries, 0) + 1
    /\ pc = "query_sleep" => q_sleeps = q_calls - 1
    /\ pc = "query" => q_sleeps = q_calls

C29_Witness ==
    /\ q_result = "returned" /\ q_text = "action"
    /\ query_retries = 2 /\ q_calls = 3 /\ q_sleeps = 2

\* C30: waitForBotTurnOrWinner waits for the two signals together: a poll at
\* a table that shows a winner (or the hero's turn) reports it without any of
\* its waits having run to the timeout.
C30_WaitsForBothTogether ==
    wait_seen \in {"hero", "winner"} => waited_out = 0

\* C21: validateAllMsg passes exactly when the four maps have the identical
\* id set, and a batch that lacks one mapping of a batch that passed is
\* reported as incomplete.
C21_CompleteIffSameIds ==
    /\ all_valid = "complete" <=>
         /\ all_valid # "none"
         /\ \A m, n \in MapNames : id_maps[m] = id_maps[n]
    /\ dropped => all_valid = "incomplete"

C21_Witness ==
    /\ dropped
    /\ all_valid = "incomplete"
    /\ Cardinality(KnownIds(id_maps)) = MaxIds

\* C22: a table-entry handshake that failed (an error from
\* sendEnterTableRequest or from waitForTableEntry) ends the session: the
\* engine neither asks again nor goes on to the hand loop.
C22_SeatingFailureIsFatal ==
    (join_code = "error" \/ entry_code = "error") => pc = "crashed"

\* C24: once navigateToGame has failed, run() has stopped with an error.
C24_NavigationFailureStopsRun == nav_ok = "failed" => pc = "crashed"

C26_QueryBuiltFromSnapshot ==
    pc = "query" =>
        /\ game_pot = convertToBBs(<<snap.pot, 1>>, big_blind)
        /\ has_hero
        /\ hero_hand = snap.hole
        /\ hero_stack = convertToBBs(<<snap.stack, 1>>, big_blind)

\* C27: within a hand the Game's community cards never get fewer from one
\* snapshot update to the next, and a hand starts with none.
C27_CommunityCardsGrow ==
    /\ prev_cards # -1 => game_cards >= prev_cards
    /\ ~updated => game_cards = 0

\* C28: every stack and bet the Table holds is a number >= 0, never NaN.
C28_StacksAndBetsAreNumbers ==
    \A i \in 1..Len(players) :
        /\ ~players[i].stack.nan /\ players[i].stack.value >= 0
        /\ ~players[i].bet.nan /\ players[i].bet.value >= 0

\* C31: closeBrowser closes the browser exactly when init launched it; a
\* browser init attached to is disconnected and left running.
C31_ClosesOnlyItsOwnBrowser ==
    browser \in {"detached", "closed"} =>
        (browser = "closed" <=> origin = "launched")

\* C32: automated, outside development: performBotAction invokes a primitive
\* only after the operator confirmed the action, and none when they declined.
C32_PrimitiveOnlyAfterConfirmation ==
    (~manual_mode /\ node_env # "development") =>
        /\ executed # <<>> => confirm = "yes"
        /\ (last_op = "performBotAction" /\ confirm = "no") => executed = <<>>

C32_Witness ==
    /\ ~manual_mode /\ node_env # "development"
    /\ last_op = "performBotAction"
    /\ confirm = "no" /\ executed = <<>>
    /\ bot_action.action_str = "raise"

\* C37: performBotAction for a fold invokes check after fold only when the
\* unnecessary-fold alert was shown and cancelled; otherwise fold is the only
\* primitive invoked.
C37_CheckOnlyAfterCancelledAlert ==
    (last_op = "performBotAction" /\ bot_action.action_str = "fold"
     /\ executed # <<>>) =>
        IF fold_alert = "unnecessary" /\ alert_clicked
        THEN executed \in {<< <<"fold">> >>, << <<"fold">>, <<"check">> >>}
        ELSE executed = << <<"fold">> >>

\* C36: after a no to 'Ready to start advisory mode?' the engine does not
\* enter the table, never polls the Observer and never queries the Oracle.
C36_DeclinedStartStops ==
    ready = "no" =>
        ops \cap (Polls \cup {"enterTableInProgress", "getAction"}) = {}

\* C33: the snapshot engines' monitoring loop leaves a hand only on a
\* snapshot where the hero is not on turn and either at most one player has
\* not folded, or five community cards are out and nobody is on turn; on a
\* snapshot with the hero on turn it goes on to the query and the advice and
\* does not end the hand.
C33_LeavesOnlyFinishedHand ==
    /\ (last_op = "getTableState" /\ pc = "reset") =>
          /\ ~seen.isNull
          /\ ~(seen.self /\ seen.selfTurn)
          /\ \/ seen.active <= 1
             \/ seen.cards = 5 /\ ~seen.selfTurn /\ ~seen.otherTurn
    /\ (last_op = "getTableState" /\ seen.self /\ seen.selfTurn) =>
          pc = "query" /\ q_result = "running"
    /\ pc = "wait_user" =>
          seen.selfTurn /\ shown.type \in {"advice", "fallback"}

C33_Witness ==
    /\ last_op = "getTableState" /\ pc = "reset"
    /\ seen.cards = 5 /\ seen.active = 2 /\ seen.self

\* C34: a missing snapshot, or one without the hero, never ends the hand,
\* never changes the Table or the Game and never starts an Oracle query: the
\* loop polls again.
C34_HeroLessSnapshotOnlyPollsAgain ==
    (last_op = "getTableState" /\ (seen.isNull \/ ~seen.self)) =>
        pc = "monitor" /\ ~models_updated /\ q_result = "none"

\* C35: after each hero turn advisoryOneHand handled (log engine), the
\* table's per-turn player actions have been reset before the next poll,
\* whether the query returned or raised.
C35_ActionsResetAfterTurn ==
    (engine = "log" /\ last_op = "waitForUserExecution") =>
        "resetPlayerActions" \in ops

Count(s, P(_)) == Cardinality({i \in 1..Len(s) : P(s[i])})

\* C38: a call repeated after a throw, with the same input and the same
\* history, works on a history that holds the input once, and at most one
\* system message, the first.
C38_RetryKeepsOneUserMessage ==
    attempts >= 2 =>
        /\ Count(formatted,
                 LAMBDA m : m.role = "user" /\ m.text = Input(input)) = 1
        /\ \A i \in 1..Len(formatted) : formatted[i].role = "system" => i = 1

C38_Witness ==
    /\ attempts = 2 /\ input = 2 /\ ~last_failed
    /\ Len(formatted) = 4
    /\ formatted[1].role = "system"
    /\ formatted[4] = AIMessage("user", Input(2))

\* C39: after n calls of updateHandStats for a player that had no record, the
\* database holds the player's record with total_hands = n and with walks,
\* vpip_hands and pfr_hands the numbers of calls that had the flag set.
C39_CountersFollowCalls ==
    tally.total_hands >= 1 =>
        /\ PlayerName \in DOMAIN stored
        /\ stored[PlayerName] =
              [name |-> PlayerName,
               total_hands |-> Number(tally.total_hands),
               walks |-> Number(tally.walks),
               vpip_hands |-> Number(tally.vpip_hands),
               pfr_hands |-> Number(tally.pfr_hands)]

Spec == Init /\ [][Next]_vars

TimeoutSpec == TimeoutInit /\ [][TimeoutNext]_vars

LogSpec == LogInit /\ [][LogNext]_vars

MapSpec == MapInit /\ [][MapNext]_vars

EntrySpec == EntryInit /\ [][EntryNext]_vars

ActSpec == ActInit /\ [][ActNext]_vars

TalkSpec == TalkInit /\ [][TalkNext]_vars

AggSpec == AggInit /\ [][AggNext]_vars

ReadSpec == ReadInit /\ [][ReadNext]_vars

BrowserSpec == BrowserInit /\ [][BrowserNext]_vars

ExecSpec == ExecInit /\ [][ExecNext]_vars

StartSpec == StartInit /\ [][StartNext]_vars

WatchSpec == WatchInit /\ [][WatchNext]_vars

RetrySpec == RetryInit /\ [][RetryNext]_vars

LedgerSpec == LedgerInit /\ [][LedgerNext]_vars
====
